---------------------------- MODULE Spec2Model ----------------------------
(***************************************************************************)
(* Asset Link plugin (src/index.js): trigger, receiver and role registry   *)
(* as a state machine driven by the host's event loop.                     *)
(*                                                                         *)
(* Text values (state names, role names, comma-separated settings) are     *)
(* sequences of chunks: "," and " " are the separator and the blank, any   *)
(* other chunk is an ordinary run of characters.  The empty sequence is    *)
(* the empty string and the undefined field of a component; Undefined is   *)
(* the value of a setting never set and of a missing message key, which    *)
(* === tells from the empty string.  JavaScript treats all as false.       *)
(*                                                                         *)
(* src/index.js holds two definitions of every class (lines 1-910 and      *)
(* 912-1653); `build` is the one the host loaded.                          *)
(***************************************************************************)
EXTENDS Integers, Sequences, FiniteSets, TLC

VARIABLES
    build,                \* 1: first definitions (1-910), 2: second (912-1653)
    now,                  \* Date.now(), milliseconds
    ev,                   \* the handler or callback that ran last
    out,                  \* host effects issued by the last step
    userRoles,            \* AssetLink.userRoles: user -> list of roles
    availableRoles,       \* AssetLink.availableRoles (comma-separated text)
    rf,                   \* receiver settings, as getField returns them
    loadState,            \* receiver: "none", "loading" (onLoad suspended),
                          \* "loaded", "unloading" (onUnload during onLoad),
                          \* "unloaded", "leaked" (interval left running)
    currentState, currentIndex, currentDirection,
    processingTransition, lastTriggerTime,
    staticStates, forwardTransitions, reverseTransitions,
    transitionMode, mappingArray, disableLocalAudio,
    conts,                \* handlers suspended at an awaited host call
    timers,               \* callbacks scheduled with setTimeout
    inbox,                \* messages the plugin forwarded to the receiver
    props,                \* the object's properties in the host store
    animations,           \* what objects.getAnimations resolves to for it
    fwdRun,               \* accepted cycle triggers since index 0 (history)
    lastAccepted,         \* Date.now() of the last accepted trigger (history)
    audio,                \* this.audioID and the host's running playbacks
    tf,                   \* trigger settings, as getField returns them
    tc,                   \* trigger component: its fields and intervals
    pendingSend,          \* trigger() calls suspended at user.isAdmin()
    sf,                   \* secondary audio output settings (getField)
    sc,                   \* secondary audio output component
    atUnload              \* the receiver and the store when onUnload ran (history)

plgVars == <<userRoles, availableRoles>>
rcvVars == <<currentState, currentIndex, currentDirection, processingTransition,
             lastTriggerTime, staticStates, forwardTransitions,
             reverseTransitions, transitionMode, mappingArray,
             disableLocalAudio>>
trgVars == <<tf, tc, pendingSend>>
\* what the host fixes when it loads the plugin and the object
host == <<build, animations>>
secVars == <<sf, sc>>
vars == <<build, now, ev, out, userRoles, availableRoles, rf, loadState,
          currentState, currentIndex, currentDirection, processingTransition,
          lastTriggerTime, staticStates, forwardTransitions,
          reverseTransitions, transitionMode, mappingArray, disableLocalAudio,
          conts, timers, inbox, props, animations, fwdRun, lastAccepted,
          audio, tf, tc, pendingSend, sf, sc, atUnload>>

-----------------------------------------------------------------------------
(* Bounds of the model.                                                    *)

MaxTicks == 3         \* clock steps taken by Tick
MaxInbox == 1         \* forwarded messages not yet delivered to the receiver
MaxPending == 1       \* trigger() calls suspended at once
MaxPlays == 2         \* playbacks started with audio.play
MaxIntervals == 2     \* proximity intervals of the trigger running at once
MaxPolls == 2         \* checkProximity calls suspended at once

TickMs == 1000        \* one clock step
StartTime == 10000    \* Date.now() when the component is created
DefaultDurationMs == 2000
DefaultRelayDurationMs == 2000
DefaultCooldown == 1
UnsetDirection == 0   \* typeof currentDirection === 'undefined'
UndefinedTime == -1   \* lastTriggerTime before onLoad assigned it
UndefinedIndex == -1  \* currentIndex before readSettings assigned it
NaN == -1             \* a duration that is no number, and its product

-----------------------------------------------------------------------------
(* Text.                                                                   *)

Name(s) == <<s>>
NoName == <<>>
\* a field or message key that was never set, where the code compares it
\* with === : undefined is not the empty string
Undefined == << "undefined" >>
UndefinedList == << NoName >>   \* a list field that was never assigned

RECURSIVE TrimLeft(_)
TrimLeft(s) ==
    IF s # <<>> /\ Head(s) = " " THEN TrimLeft(Tail(s)) ELSE s

RECURSIVE TrimRight(_)
TrimRight(s) ==
    IF s # <<>> /\ s[Len(s)] = " " THEN TrimRight(SubSeq(s, 1, Len(s) - 1)) ELSE s

\* String.prototype.trim
Trim(s) == TrimRight(TrimLeft(s))

\* String.prototype.split(','): the pieces between the commas
RECURSIVE SplitFrom(_, _, _)
SplitFrom(s, i, piece) ==
    IF i > Len(s) THEN << piece >>
    ELSE IF s[i] = "," THEN << piece >> \o SplitFrom(s, i + 1, <<>>)
    ELSE SplitFrom(s, i + 1, Append(piece, s[i]))

SplitComma(s) == SplitFrom(s, 1, <<>>)

\* str.split(',').map(s => s.trim()).filter(s => s.length > 0)
ParseList(s) ==
    LET pieces == SplitComma(s)
        trimmed == [i \in 1..Len(pieces) |-> Trim(pieces[i])]
    IN  SelectSeq(trimmed, LAMBDA p : Len(p) > 0)

\* Array.prototype.indexOf (0-based, -1 when absent)
IndexOf(list, x) ==
    IF \E i \in 1..Len(list) : list[i] = x
    THEN (CHOOSE i \in 1..Len(list) :
             list[i] = x /\ \A j \in 1..(i - 1) : list[j] # x) - 1
    ELSE -1

Includes(list, x) == \E i \in 1..Len(list) : list[i] = x

\* list[i] with a 0-based index; undefined outside the array
At(list, i) == IF i >= 0 /\ i < Len(list) THEN list[i + 1] ELSE NoName

\* a list that is left in its input order
ReverseMutant(list) == list

\* Array.prototype.reverse
Reverse(list) == [i \in 1..Len(list) |-> list[Len(list) + 1 - i]]

\* a || b on text
OrElse(a, b) == IF a # NoName /\ a # Undefined THEN a ELSE b

\* parseFloat(x) || d : 0 and NaN both give the default
NumberOr(x, d) == IF x = 0 \/ x = NaN THEN d ELSE x

DefaultStaticStates ==
    <<"static01", ",", " ", "static02", ",", " ", "static03">>
DefaultForward == <<"transition01", ",", " ", "transition02">>
DefaultReverse == <<"return02", ",", " ", "return01">>

\* if (!str || str.trim().length === 0) str = <default>
FieldOrDefault(str, default) == IF Len(Trim(str)) = 0 THEN default ELSE str

-----------------------------------------------------------------------------
(* Host effects, suspended handlers and timers.                            *)

\* plugin.objects.update(objectID, {animation, currentState, currentDirection})
\* NoName / UnsetDirection mark a key the call does not carry.
Update(anim, state, dir, hasState) ==
    [op |-> "update", animation |-> anim, currentState |-> state,
     currentDirection |-> dir, hasState |-> hasState]

ObjectID == << "obj1" >>          \* this.objectID of the receiver

RelaySound(file, volume, duration) ==
    [op |-> "send", action |-> "relaySound", sourceID |-> ObjectID,
     soundFile |-> file, volume |-> volume, duration |-> duration]

Play(file, volume) == [op |-> "play", soundFile |-> file, volume |-> volume]

Stop(handle) == [op |-> "stop", handle |-> handle]

\* an object store that drops the currentState key of an update
MergeMutant(p, u) ==
    [animation |-> IF u.animation # NoName THEN u.animation ELSE p.animation,
     currentState |-> p.currentState,
     currentDirection |-> IF u.currentDirection # UnsetDirection
                          THEN u.currentDirection ELSE p.currentDirection]

\* the object store merges the keys an update carries
Merge(p, u) ==
    [animation |-> IF u.animation # NoName THEN u.animation ELSE p.animation,
     currentState |-> IF u.hasState THEN u.currentState ELSE p.currentState,
     currentDirection |-> IF u.currentDirection # UnsetDirection
                          THEN u.currentDirection ELSE p.currentDirection]

Cont(pc, kind, anim, target, nextIndex, soundFile, volume, duration) ==
    [pc |-> pc, kind |-> kind, anim |-> anim, target |-> target,
     nextIndex |-> nextIndex, soundFile |-> soundFile, volume |-> volume,
     duration |-> duration, handle |-> 0]

\* setTimeout(f, NaN) waits as setTimeout(f, 0) does
Delay(duration) == IF duration = NaN THEN 0 ELSE duration

Timer(due, kind, target, nextIndex) ==
    [due |-> due, kind |-> kind, target |-> target, nextIndex |-> nextIndex]

\* String.prototype.toLowerCase, chunk by chunk
LowerChunk(c) ==
    CASE c = "Transition01" -> "transition01"
      [] c = "On-Click" -> "on-click"
      [] c = "Proximity" -> "proximity"
      [] c = "Multi-Proximity" -> "multi-proximity"
      [] OTHER -> c

Lower(s) == [i \in 1..Len(s) |-> LowerChunk(s[i])]

\* String.prototype.includes
Contains(s, part) ==
    \E i \in 0..(Len(s) - Len(part)) :
        \A j \in 1..Len(part) : s[i + j] = part[j]

Volume == NumberOr(rf.volume, 1)         \* parseFloat(getField('volume')) || 1

-----------------------------------------------------------------------------
(* Role registry (AssetLink).                                              *)

GetUserRoles(userID) ==
    IF userID \in DOMAIN userRoles THEN userRoles[userID] ELSE <<>>

\* assignUserRole that pushes without looking
AssignUserRoleMutant(roles, userID, role) ==
    [roles EXCEPT ![userID] = Append(@, role)]

\* assignUserRole: push unless present
AssignUserRole(roles, userID, role) ==
    IF IndexOf(roles[userID], role) = -1
    THEN [roles EXCEPT ![userID] = Append(@, role)]
    ELSE roles

\* isValidRole (first definitions only)
IsValidRole(role) == Includes(ParseList(availableRoles), role)

-----------------------------------------------------------------------------
(* Receiver: readSettings.                                                 *)

AnimationModeField == Trim(OrElse(rf.animationMode, Name("Reactive")))
TransitionModeField == Trim(OrElse(rf.transitionMode, Name("Cycle")))

\* A JSON value, as far as handleTransitionMapping can tell values apart:
\*   "json"     an array of mapping objects, `value` its entries
\*   "scalars"  an array of numbers or strings, e.g. [1, 2]
\*   "nulls"    an array holding null, e.g. [null]
\*   "object"   an object, e.g. {"from": "A", "to": "B"}
\*   "string"   a non-empty string, e.g. "A>B"
\*   "number"   a number other than 0
\*   "null"     null
\* and as the text of a setting also "invalid", text JSON.parse rejects.
\* "undefined" is the field mappingArray before readSettings assigned it.
Json(text, value) == [text |-> text, value |-> value]
EmptyArray == Json("json", <<>>)
UndefinedMapping == Json("undefined", <<>>)

\* JSON.parse(getField('transitionMapping') || '[]') inside try/catch
\* (lines 548-553): the parsed value whatever it is, [] when parsing throws
ParseMapping(raw) ==
    IF raw.text = "invalid" THEN EmptyArray ELSE raw

\* plugin.objects.getAnimations resolves to the JSON text of an array of
\* {name, duration}, the duration in seconds; `duration` 0 is the number 0
\* or a missing key, NaN a duration that is text and no numeral; `name`
\* Undefined is an entry without a name
HostAnimations ==
    Json("json",
         << [name |-> <<"Transition01">>, duration |-> 1],
            [name |-> <<"transition02">>, duration |-> 1],
            [name |-> <<"return01">>, duration |-> 1],
            [name |-> <<"return02">>, duration |-> 1],
            [name |-> <<"idle", "-", "active">>, duration |-> 1],
            [name |-> <<"default">>, duration |-> 0],
            [name |-> <<"F">>, duration |-> 1] >>)

\* the promise of objects.getAnimations rejects
Rejected == Json("rejected", <<>>)

\* the callback of find (line 623) throws at this entry: a.name or
\* animationName has no toLowerCase
FindCallbackThrows(a, animationName) ==
    a.name = Undefined \/ animationName = Undefined

\* a.name.toLowerCase().includes(animationName.toLowerCase())
NameMatches(a, animationName) ==
    Contains(Lower(a.name), Lower(animationName))

\* getAnimationDuration (lines 619-631).  JSON.parse throws on text that is
\* no JSON, find is no function of a value that is no array, and the
\* callback throws as above: the catch block swallows each and 2000 is
\* returned.  find stops at the first entry that matches; its duration is
\* used when truthy.  The empty name is contained in every name.
GetAnimationDuration(animStr, animationName) ==
    LET list == animStr.value
        stops == {i \in 1..Len(list) :
                    \/ FindCallbackThrows(list[i], animationName)
                    \/ NameMatches(list[i], animationName)}
        first == CHOOSE i \in stops : \A j \in stops : i <= j
    IN  IF animStr.text # "json" \/ stops = {} THEN DefaultDurationMs
        ELSE IF FindCallbackThrows(list[first], animationName)
        THEN DefaultDurationMs
        ELSE IF list[first].duration = 0 THEN DefaultDurationMs
        ELSE IF list[first].duration = NaN THEN NaN
        ELSE list[first].duration * 1000

\* readSettings that keeps the direction it finds
ReadDirectionMutant(idx, len, dir) == dir

\* readSettings, lines 539-545: direction after the index is known
ReadDirection(idx, len, dir) ==
    IF idx >= len - 1 THEN -1
    ELSE IF idx <= 0 THEN 1
    ELSE IF dir = UnsetDirection THEN 1
    ELSE dir

\* readSettings, lines 523-528: index and state against the new list
ReadIndex(ss, cs) ==
    IF cs = NoName \/ ~Includes(ss, cs) THEN 0 ELSE IndexOf(ss, cs)

ReadState(ss, cs) ==
    IF cs = NoName \/ ~Includes(ss, cs) THEN At(ss, 0) ELSE cs

\* readSettings run with this.currentState = cs, this.currentDirection = dir
ReadSettings(cs, dir) ==
    /\ disableLocalAudio' = rf.disableLocalAudio
    /\ IF AnimationModeField = Name("Transition")
       THEN /\ transitionMode' = TransitionModeField
            /\ IF TransitionModeField = Name("Cycle")
               THEN LET ss == ParseList(FieldOrDefault(rf.staticStates,
                                                       DefaultStaticStates))
                        idx == ReadIndex(ss, cs)
                    IN  /\ staticStates' = ss
                        /\ currentIndex' = idx
                        /\ currentState' = ReadState(ss, cs)
                        /\ forwardTransitions' =
                             ParseList(FieldOrDefault(rf.forwardTransitions,
                                                      DefaultForward))
                        /\ reverseTransitions' =
                             Reverse(ParseList(FieldOrDefault(rf.reverseTransitions,
                                                              DefaultReverse)))
                        /\ currentDirection' = ReadDirection(idx, Len(ss), dir)
                        /\ UNCHANGED mappingArray
               ELSE /\ currentState' = OrElse(rf.initialState, Name("static01"))
                    /\ mappingArray' = ParseMapping(rf.transitionMapping)
                    /\ currentDirection' = dir
                    /\ UNCHANGED <<currentIndex, staticStates,
                                   forwardTransitions, reverseTransitions>>
       ELSE /\ currentState' = cs
            /\ currentDirection' = dir
            /\ UNCHANGED <<transitionMode, currentIndex, staticStates,
                           forwardTransitions, reverseTransitions, mappingArray>>

-----------------------------------------------------------------------------
(* Receiver: handleTrigger and the three handlers, up to their first await. *)

\* handleTrigger, line 592: now - lastTriggerTime < cooldown * 1000
\* (false while lastTriggerTime is undefined: the difference is NaN)
InCooldown(t, last, cooldown) ==
    last # UndefinedTime /\ t - last < cooldown * 1000

\* handleTransitionCycle that keeps the direction it finds
CycleDirectionMutant(idx, len, dir) == dir

\* handleTransitionCycle, lines 675-679
CycleDirection(idx, len, dir) ==
    IF idx >= len - 1 THEN -1
    ELSE IF idx <= 0 THEN 1
    ELSE dir

\* handleTransitionCycle, line 683
ForwardAnimation(idx) ==
    OrElse(OrElse(At(forwardTransitions, idx), At(forwardTransitions, 0)),
           Name("transition01"))

\* handleTransitionCycle, line 715
ReverseAnimation(nextIndex) ==
    OrElse(OrElse(At(reverseTransitions, nextIndex), At(reverseTransitions, 0)),
           Name("return01"))

\* 'static01, static02, static03'.split(',').map(s => s.trim())
FallbackStates ==
    LET pieces == SplitComma(DefaultStaticStates)
    IN  [i \in 1..Len(pieces) |-> Trim(pieces[i])]

\* accepted cycle triggers in a row that began at index 0 (history)
NextRun(idx, len, dir) ==
    IF dir = 1 /\ (fwdRun > 0 \/ idx = 0)
    THEN (IF fwdRun < len THEN fwdRun + 1 ELSE len)
    ELSE 0

\* handleReactive, lines 634-636
StartReactive ==
    /\ processingTransition' = TRUE
    /\ conts' = conts \cup
          {Cont("getAnimations", "reactive", rf.reactiveAnimation,
                rf.defaultAnimation, UndefinedIndex, NoName, 0, 0)}
    /\ UNCHANGED <<currentState, currentIndex, currentDirection, staticStates,
                   fwdRun>>

\* handleTransitionCycle, lines 667-684 and 709-716, 741-744
StartCycle ==
    LET fallback == Len(staticStates) = 0
        ss == IF fallback THEN FallbackStates ELSE staticStates
        idx == IF fallback THEN 0 ELSE currentIndex
        dir == CycleDirection(idx, Len(ss),
                              IF fallback THEN 1 ELSE currentDirection)
        nextIndex == idx + dir
        list == IF dir = 1 THEN forwardTransitions ELSE reverseTransitions
        moves == (dir = 1 /\ nextIndex < Len(ss)) \/ (dir = -1 /\ nextIndex >= 0)
        anim == IF dir = 1 THEN ForwardAnimation(idx)
                ELSE ReverseAnimation(nextIndex)
    IN  /\ staticStates' = ss
        /\ currentIndex' = idx
        /\ currentState' = IF fallback THEN At(ss, 0) ELSE currentState
        /\ currentDirection' = dir
        /\ IF moves /\ list # UndefinedList
           THEN /\ processingTransition' = TRUE
                /\ conts' = conts \cup
                      {Cont("getAnimations", "cycle", anim, NoName, nextIndex,
                            NoName, 0, 0)}
                /\ fwdRun' = NextRun(idx, Len(ss), dir)
           ELSE \* no move: the flag is cleared; a list that was never read
                \* throws, a direction that is neither 1 nor -1 falls through:
                \* both leave the flag set
                /\ processingTransition' = (moves \/ dir \notin {1, -1})
                /\ UNCHANGED <<conts, fwdRun>>

\* find that returns the first entry whatever it holds
FindAnyMutant(list, field, cs) == IF list = <<>> THEN 0 ELSE 1

\* find that returns the last entry that matches
FindLastMutant(list, field, cs) ==
    LET hits == {i \in 1..Len(list) : list[i][field] = cs}
    IN  IF hits = {} THEN 0 ELSE CHOOSE i \in hits : \A j \in hits : i >= j

\* mappingArray.find(m => m.from === currentState), then m.to === currentState
FindMapping(list, field, cs) ==
    LET hits == {i \in 1..Len(list) : list[i][field] = cs}
    IN  IF hits = {} THEN 0 ELSE CHOOSE i \in hits : \A j \in hits : i <= j

\* handleTransitionMapping, line 748:
\* !this.mappingArray || this.mappingArray.length === 0
NoMappings(m) ==
    \/ m.text \in {"undefined", "null"}
    \/ (m.text = "json" /\ m.value = <<>>)

\* handleTransitionMapping, line 753: this.mappingArray.find(m => m.from ...)
\* is no function on an object, a string or a number, and its callback reads
\* .from of null
FindThrows(m) == m.text \in {"object", "string", "number", "nulls"}

\* handleTransitionMapping, lines 748-755 and 794-796, 835
StartMapping ==
    LET list == mappingArray.value
        f == FindMapping(list, "from", currentState)
        t == FindMapping(list, "to", currentState)
    IN  /\ IF NoMappings(mappingArray)
           THEN /\ processingTransition' = FALSE
                /\ UNCHANGED conts
           ELSE IF FindThrows(mappingArray)
           THEN \* TypeError out of handleTrigger: the flag set at line 601
                \* stays set
                /\ processingTransition' = TRUE
                /\ UNCHANGED conts
           ELSE IF f # 0
           THEN /\ processingTransition' = TRUE
                /\ conts' = conts \cup
                      {Cont("getAnimations", "mapping", list[f].forward,
                            list[f].to, UndefinedIndex,
                            list[f].soundForward, 0, 0)}
           ELSE IF t # 0
           THEN /\ processingTransition' = TRUE
                /\ conts' = conts \cup
                      {Cont("getAnimations", "mapping", list[t].return,
                            list[t].from, UndefinedIndex,
                            list[t].soundReturn, 0, 0)}
           ELSE /\ processingTransition' = FALSE
                /\ UNCHANGED conts
        /\ UNCHANGED <<currentState, currentIndex, currentDirection,
                       staticStates, fwdRun>>

\* handleTrigger without the single-flight check
BusyMutant == FALSE

\* handleTrigger, line 597: if (this.processingTransition) return
Busy == processingTransition

\* handleTrigger, lines 589-617
HandleTrigger ==
    /\ out' = <<>>
    /\ UNCHANGED <<forwardTransitions, reverseTransitions, transitionMode,
                   mappingArray, disableLocalAudio, timers, props, audio>>
    /\ IF InCooldown(now, lastTriggerTime, NumberOr(rf.cooldown, DefaultCooldown))
       THEN UNCHANGED <<lastTriggerTime, processingTransition, conts,
                        currentState, currentIndex, currentDirection,
                        staticStates, fwdRun, lastAccepted>>
       ELSE /\ lastTriggerTime' = now
            /\ IF Busy
               THEN UNCHANGED <<processingTransition, conts, currentState,
                                currentIndex, currentDirection, staticStates,
                                fwdRun, lastAccepted>>
               ELSE /\ lastAccepted' = now
                    /\ IF AnimationModeField = Name("Reactive")
                       THEN StartReactive
                       ELSE IF AnimationModeField = Name("Transition")
                       THEN IF TransitionModeField = Name("Cycle")
                            THEN StartCycle
                            ELSE StartMapping
                       ELSE /\ processingTransition' = FALSE
                            /\ UNCHANGED <<conts, currentState, currentIndex,
                                           currentDirection, staticStates,
                                           fwdRun>>

-----------------------------------------------------------------------------
(* Receiver: the handlers after their awaits, and the timer callbacks.     *)

others == <<host, userRoles, availableRoles, tf, tc, pendingSend, secVars,
            atUnload>>
hist == <<fwdRun, lastAccepted>>

\* the completion callback a handler schedules.  The callbacks of
\* handleReactive and handleTransitionMapping capture their target
\* (defaultAnimation, mapping); that of handleTransitionCycle captures
\* nextIndex only, and its `target` records what staticStates[nextIndex] was
\* when it was scheduled (history, read by no action).
Completion(c) ==
    Timer(now + Delay(c.duration),
          IF c.kind = "reactive" THEN "revert"
          ELSE IF c.kind = "cycle" THEN "commitCycle" ELSE "commitMapping",
          IF c.kind = "cycle" THEN At(staticStates, c.nextIndex) ELSE c.target,
          c.nextIndex)

\* audio.play(...): the host starts a playback and will return its handle
StartPlayback(a) ==
    [a EXCEPT !.made = @ + 1, !.playing = @ \cup {a.made + 1}]

\* after getAnimationDuration: objects.update({animation ...}) is issued
\* (lines 636-642, 684-685, 755-756, 796-797)
ResumeGetAnimations(c) ==
    /\ c \in conts /\ c.pc = "getAnimations"
    /\ LET d == GetAnimationDuration(animations, c.anim)
           u == Update(c.anim, IF c.kind = "reactive" THEN c.anim ELSE NoName,
                       UnsetDirection, c.kind = "reactive")
       IN  /\ props' = Merge(props, u)
           /\ out' = << u >>
           /\ conts' = (conts \ {c}) \cup
                          {[c EXCEPT !.pc = "update", !.duration = d]}
    /\ ev' = "resume"
    /\ UNCHANGED <<now, rf, loadState, rcvVars, timers, inbox, hist, audio,
                   others>>

\* after objects.update: the sound rule, then setTimeout(..., duration)
\* (lines 643-654, 686-697, 757-782, 798-823; playSound 838-845)
ResumeUpdate(c) ==
    /\ c \in conts /\ c.pc = "update"
    /\ LET override == c.kind = "mapping" /\ Len(Trim(c.soundFile)) > 0
           general == Len(Trim(rf.sound)) > 0
       IN  IF ~disableLocalAudio /\ override
           THEN \* await playSoundWithFile(duration, file)
                /\ audio.made < MaxPlays
                /\ audio' = StartPlayback(audio)
                /\ out' = << Play(c.soundFile, Volume) >>
                /\ conts' = (conts \ {c}) \cup
                      {[c EXCEPT !.pc = "playFile", !.handle = audio.made + 1]}
                /\ UNCHANGED timers
           ELSE IF ~disableLocalAudio /\ general
           THEN \* playSound(duration), not awaited
                /\ audio.made < MaxPlays
                /\ audio' = StartPlayback(audio)
                /\ out' = << Play(rf.sound, Volume) >>
                /\ conts' = (conts \ {c}) \cup
                      {[Cont("audioPlay", "playSound", NoName, NoName,
                             UndefinedIndex, rf.sound, Volume, c.duration)
                        EXCEPT !.handle = audio.made + 1]}
                /\ timers' = timers \cup {Completion(c)}
           ELSE /\ out' = IF disableLocalAudio
                          THEN << RelaySound(IF override THEN c.soundFile
                                             ELSE rf.sound, Volume, c.duration) >>
                          ELSE <<>>
                /\ conts' = conts \ {c}
                /\ timers' = timers \cup {Completion(c)}
                /\ UNCHANGED audio
    /\ ev' = "resume"
    /\ UNCHANGED <<now, rf, loadState, rcvVars, inbox, props, hist, others>>

\* playSoundWithFile after audio.play (lines 862-868), then the caller's
\* setTimeout (lines 782, 823)
ResumePlayFile(c) ==
    /\ c \in conts /\ c.pc = "playFile"
    /\ audio' = [audio EXCEPT !.audioID = c.handle]
    /\ timers' = timers \cup {Timer(now + Delay(c.duration), "stopAudio", NoName,
                                    UndefinedIndex), Completion(c)}
    /\ conts' = conts \ {c}
    /\ ev' = "resume" /\ out' = <<>>
    /\ UNCHANGED <<now, rf, loadState, rcvVars, inbox, props, hist, others>>

\* playSound after audio.play (lines 842-856)
ResumeAudioPlay(c) ==
    /\ c \in conts /\ c.pc = "audioPlay"
    /\ audio' = [audio EXCEPT !.audioID = c.handle]
    /\ out' = << RelaySound(c.soundFile, c.volume, c.duration) >>
    /\ timers' = timers \cup {Timer(now + Delay(c.duration), "stopAudio", NoName,
                                    UndefinedIndex)}
    /\ conts' = conts \ {c}
    /\ ev' = "resume"
    /\ UNCHANGED <<now, rf, loadState, rcvVars, inbox, props, hist, others>>

\* setTimeout(() => audio.stop(this.audioID), duration) (lines 853-855, 866-868)
FireStopAudio(t) ==
    /\ t \in timers /\ t.kind = "stopAudio" /\ now >= t.due
    /\ out' = << Stop(audio.audioID) >>
    /\ audio' = [audio EXCEPT !.playing = @ \ {audio.audioID}]
    /\ timers' = timers \ {t}
    /\ ev' = "stopAudio"
    /\ UNCHANGED <<now, rf, loadState, rcvVars, conts, inbox, props, hist,
                   others>>

\* handleReactive, first timer (lines 654-659): back to the default animation
FireRevert(t) ==
    /\ t \in timers /\ t.kind = "revert" /\ now >= t.due
    /\ LET u == Update(t.target, t.target, UnsetDirection, TRUE)
       IN  /\ props' = Merge(props, u)
           /\ out' = << u >>
    /\ conts' = conts \cup {Cont("revertUpdate", "reactive", NoName, NoName,
                                 UndefinedIndex, NoName, 0, 0)}
    /\ timers' = timers \ {t}
    /\ ev' = "revert"
    /\ UNCHANGED <<now, rf, loadState, rcvVars, inbox, hist, audio, others>>

\* handleReactive, lines 660-662: the cooldown timer is scheduled
ResumeRevertUpdate(c) ==
    /\ c \in conts /\ c.pc = "revertUpdate"
    /\ timers' = timers \cup
          {Timer(now + NumberOr(rf.cooldown, DefaultCooldown) * 1000,
                 "clearFlag", NoName, UndefinedIndex)}
    /\ conts' = conts \ {c}
    /\ ev' = "resume" /\ out' = <<>>
    /\ UNCHANGED <<now, rf, loadState, rcvVars, inbox, props, hist, audio,
                   others>>

\* handleReactive, line 661
FireClearFlag(t) ==
    /\ t \in timers /\ t.kind = "clearFlag" /\ now >= t.due
    /\ processingTransition' = FALSE
    /\ timers' = timers \ {t}
    /\ ev' = "clearFlag" /\ out' = <<>>
    /\ UNCHANGED <<now, rf, loadState, currentState, currentIndex,
                   currentDirection, lastTriggerTime, staticStates,
                   forwardTransitions, reverseTransitions, transitionMode,
                   mappingArray, disableLocalAudio, conts, inbox, props, hist,
                   audio, others>>

\* handleTransitionCycle, the completion callback (lines 697-708, 729-740)
FireCommitCycle(t) ==
    /\ t \in timers /\ t.kind = "commitCycle" /\ now >= t.due
    /\ LET st == At(staticStates, t.nextIndex)
           u1 == Update(st, st, UnsetDirection, TRUE)
           u2 == Update(NoName, st, currentDirection, TRUE)
       IN  /\ props' = Merge(Merge(props, u1), u2)
           /\ out' = << u1, u2 >>
           /\ currentState' = st
    /\ currentIndex' = t.nextIndex
    /\ processingTransition' = FALSE
    /\ timers' = timers \ {t}
    /\ ev' = "commitCycle"
    /\ UNCHANGED <<now, rf, loadState, currentDirection, lastTriggerTime,
                   staticStates, forwardTransitions, reverseTransitions,
                   transitionMode, mappingArray, disableLocalAudio, conts, inbox,
                   hist, audio, others>>

\* handleTransitionMapping, the completion callback (lines 782-791, 823-832)
FireCommitMapping(t) ==
    /\ t \in timers /\ t.kind = "commitMapping" /\ now >= t.due
    /\ LET u == Update(t.target, t.target, UnsetDirection, TRUE)
       IN  /\ props' = Merge(props, u)
           /\ out' = << u >>
    /\ currentState' = t.target
    /\ processingTransition' = FALSE
    /\ timers' = timers \ {t}
    /\ ev' = "commitMapping"
    /\ UNCHANGED <<now, rf, loadState, currentIndex, currentDirection,
                   lastTriggerTime, staticStates, forwardTransitions,
                   reverseTransitions, transitionMode, mappingArray,
                   disableLocalAudio, conts, inbox, hist, audio, others>>

-----------------------------------------------------------------------------
(* Receiver: lifecycle and messages.                                       *)

\* the receiver is in plugin.receiverComponents: from the push in onLoad
\* (line 488) to the splice in onUnload (lines 559-562)
Registered == loadState \in {"loading", "loaded"}

\* onLoad after its awaited host calls (lines 490-501; 1259-1269); it also
\* resumes when onUnload ran meanwhile ("unloading"), and the second
\* definitions then start the settingsChecker of line 1267 ("leaked")
LoadDone ==
    /\ loadState \in {"loading", "unloading"}
    /\ ReadSettings(IF props.currentState # NoName THEN props.currentState
                    ELSE currentState,
                    IF props.currentDirection # UnsetDirection
                    THEN props.currentDirection ELSE currentDirection)
    /\ processingTransition' = FALSE
    /\ lastTriggerTime' = 0
    /\ loadState' = IF loadState = "loading" THEN "loaded"
                    ELSE IF build = 2 THEN "leaked" ELSE "unloaded"
    /\ ev' = "onLoad" /\ out' = <<>>
    /\ UNCHANGED <<now, rf, conts, timers, inbox, props, hist, audio, others>>

\* onSettingsUpdated (lines 504-507): the host calls it on a loaded
\* component; Save Roles of the role panel (lines 118-129, first definitions)
\* calls it on every registered one, also while its onLoad is suspended
OnSettingsUpdated ==
    /\ loadState = "loaded" \/ (loadState = "loading" /\ build = 1)
    /\ ReadSettings(currentState, currentDirection)
    /\ ev' = "readSettings" /\ out' = <<>>
    /\ UNCHANGED <<now, rf, loadState, processingTransition, lastTriggerTime,
                   conts, timers, inbox, props, hist, audio, others>>

\* setInterval(() => { this.readSettings() }, 1000) (line 1267)
SettingsChecker ==
    /\ build = 2 /\ loadState \in {"loaded", "leaked"}
    /\ ReadSettings(currentState, currentDirection)
    /\ ev' = "readSettings" /\ out' = <<>>
    /\ UNCHANGED <<now, rf, loadState, processingTransition, lastTriggerTime,
                   conts, timers, inbox, props, hist, audio, others>>

\* onUnload (lines 558-564; 1321-1330): leaves the list, and the second
\* definitions clear the settingsChecker if onLoad has set it; timers and
\* suspended handlers stay
ReceiverOnUnload ==
    /\ Registered
    /\ loadState' = IF loadState = "loading" THEN "unloading" ELSE "unloaded"
    /\ atUnload' = [unloaded |-> TRUE, currentState |-> currentState,
                    currentIndex |-> currentIndex,
                    currentDirection |-> currentDirection,
                    length |-> Len(staticStates), props |-> props]
    /\ ev' = "onUnload" /\ out' = <<>>
    /\ UNCHANGED <<now, rf, rcvVars, conts, timers, inbox, props, hist, audio,
                   host, plgVars, trgVars, secVars>>

\* the object is loaded again: a new instance, whose onLoad registers it and
\* suspends at getID (lines 487-489); taken once the old instance has no
\* work outstanding
Reattach ==
    /\ loadState = "unloaded"
    /\ conts = {} /\ timers = {} /\ inbox = <<>>
    /\ loadState' = "loading"
    /\ currentState' = NoName
    /\ currentIndex' = UndefinedIndex
    /\ currentDirection' = UnsetDirection
    /\ processingTransition' = FALSE
    /\ lastTriggerTime' = UndefinedTime
    /\ staticStates' = <<>>
    /\ forwardTransitions' = UndefinedList
    /\ reverseTransitions' = UndefinedList
    /\ transitionMode' = NoName
    /\ mappingArray' = UndefinedMapping
    /\ disableLocalAudio' = FALSE
    /\ fwdRun' = 0
    /\ lastAccepted' = UndefinedTime
    /\ ev' = "reattach" /\ out' = <<>>
    /\ UNCHANGED <<now, rf, conts, timers, inbox, props, audio, atUnload,
                   host, plgVars, trgVars, secVars>>

\* msg.key, undefined when the message has no such key
Key(msg, key) == IF key \in DOMAIN msg THEN msg[key] ELSE Undefined

\* AssetLink.onMessage (lines 296-308): forward to the matching receivers
Forwards(msg) ==
    /\ Registered
    /\ rf.actionID = msg.actionID
    /\ ~(rf.adminOnly /\ ~msg.isAdmin)

PluginOnMessage(msg) ==
    /\ Len(inbox) < MaxInbox
    /\ Len(sc.inbox) < MaxInbox
    /\ inbox' = IF Forwards(msg)
                THEN Append(inbox, [action |-> "trigger", was |-> msg.action,
                                    actionID |-> msg.actionID,
                                    isAdmin |-> msg.isAdmin,
                                    userID |-> msg.userID])
                ELSE inbox
    \* lines 309-311: every message goes to every secondary component
    /\ sc' = IF sc.registered THEN [sc EXCEPT !.inbox = Append(@, msg)] ELSE sc
    /\ ev' = "message" /\ out' = <<>>
    /\ UNCHANGED <<now, rf, loadState, rcvVars, conts, timers, props, hist,
                   audio, host, plgVars, trgVars, sf, atUnload>>

\* ReceiverComponent.onMessage, lines 569-584 (second definitions: 1335-1342)
ReceiverAccepts(msg) ==
    /\ msg.action = "trigger"
    /\ msg.actionID = rf.actionID
    /\ (rf.roleRestricted /\ rf.requiredRole # NoName) =>
          /\ build = 1 => IsValidRole(rf.requiredRole)
          /\ IndexOf(GetUserRoles(msg.userID), rf.requiredRole) # -1

ReceiverOnMessage ==
    /\ inbox # <<>>
    /\ inbox' = Tail(inbox)
    /\ IF ReceiverAccepts(Head(inbox))
       THEN ev' = "handleTrigger" /\ HandleTrigger
       ELSE /\ ev' = "onMessage" /\ out' = <<>>
            /\ UNCHANGED <<rcvVars, conts, timers, props, hist, audio>>
    /\ UNCHANGED <<now, rf, loadState, others>>

\* the designer edits the receiver's settings
EditReceiver(fields) ==
    /\ fields # rf
    /\ rf' = fields
    /\ UNCHANGED hist
    /\ ev' = "edit" /\ out' = <<>>
    /\ UNCHANGED <<now, loadState, rcvVars, conts, timers, inbox, props, audio,
                   others>>

\* time passes
Tick ==
    /\ now < StartTime + MaxTicks * TickMs
    /\ now' = now + TickMs
    /\ ev' = "tick" /\ out' = <<>>
    /\ UNCHANGED <<rf, loadState, rcvVars, conts, timers, inbox, props, hist,
                   audio, others>>

rcvAll == <<rf, loadState, rcvVars, conts, timers, inbox, props, hist, audio,
            atUnload>>

-----------------------------------------------------------------------------
(* Secondary audio output (AssetLinkSecondaryAudioOutput).                 *)

\* the component's registered setting; the host stores nothing until set
SecondaryDefaults == [sourceID |-> Undefined]

\* a component instance: before onLoad ("none"), suspended at getID
\* ("loading"), after it ("loaded")
SecondaryAt(load) ==
    [load |-> load, registered |-> load # "none", sourceID |-> Undefined,
     audioID |-> 0, inbox |-> <<>>, plays |-> {}, stops |-> {}, made |-> 0,
     playing |-> {}]

NoSecondary == sf = SecondaryDefaults /\ sc = SecondaryAt("none")

\* this.getField('sourceID') || ""
SourceIDField == OrElse(sf.sourceID, NoName)

\* onLoad after await getID() (line 880)
SecondaryLoadDone ==
    /\ sc.load = "loading"
    /\ sc' = [sc EXCEPT !.load = "loaded", !.sourceID = SourceIDField]
    /\ ev' = "secondaryLoad" /\ out' = <<>>
    /\ UNCHANGED <<host, now, plgVars, trgVars, rcvAll, sf>>

\* onSettingsUpdated (lines 883-885)
SecondaryOnSettingsUpdated ==
    /\ sc.load = "loaded" /\ sc.registered
    /\ sc' = [sc EXCEPT !.sourceID = SourceIDField]
    /\ ev' = "secondarySettings" /\ out' = <<>>
    /\ UNCHANGED <<host, now, plgVars, trgVars, rcvAll, sf>>

\* onUnload (lines 887-892): leaves the list; a pending stop stays
SecondaryOnUnload ==
    /\ sc.registered
    /\ sc' = [sc EXCEPT !.registered = FALSE]
    /\ ev' = "secondaryUnload" /\ out' = <<>>
    /\ UNCHANGED <<host, now, plgVars, trgVars, rcvAll, sf>>

\* the designer edits the component's setting
EditSecondary(fields) ==
    /\ sf' = fields
    /\ ev' = "edit" /\ out' = <<>>
    /\ UNCHANGED <<host, now, plgVars, trgVars, rcvAll, sc>>

\* line 895
SecondaryAcceptsMutant(msg) == msg.action = "relaySound"
SecondaryAccepts(msg) ==
    /\ msg.action = "relaySound"
    /\ Key(msg, "sourceID") = sc.sourceID

\* onMessage up to await audio.play (lines 894-903)
SecondaryOnMessage ==
    /\ sc.inbox # <<>>
    /\ LET msg == Head(sc.inbox)
       IN  IF SecondaryAccepts(msg)
           THEN /\ sc.made < MaxPlays
                /\ sc' = [sc EXCEPT
                     !.inbox = Tail(@), !.made = @ + 1,
                     !.playing = @ \cup {sc.made + 1},
                     !.plays = @ \cup
                        {[handle |-> sc.made + 1,
                          duration |-> NumberOr(Key(msg, "duration"),
                                                DefaultRelayDurationMs)]}]
                /\ out' = << Play(Key(msg, "soundFile"),
                                  NumberOr(Key(msg, "volume"), 1)) >>
           ELSE /\ sc' = [sc EXCEPT !.inbox = Tail(@)]
                /\ out' = <<>>
    /\ ev' = "secondaryMessage"
    /\ UNCHANGED <<host, now, plgVars, trgVars, rcvAll, sf>>

\* onMessage after audio.play: this.audioID and the setTimeout (896, 904-906)
SecondaryResumePlay(c) ==
    /\ c \in sc.plays
    /\ sc' = [sc EXCEPT !.plays = @ \ {c}, !.audioID = c.handle,
                        !.stops = @ \cup {now + c.duration}]
    /\ ev' = "secondaryResume" /\ out' = <<>>
    /\ UNCHANGED <<host, now, plgVars, trgVars, rcvAll, sf>>

\* setTimeout(() => audio.stop(this.audioID), duration) (lines 904-906)
SecondaryStop(due) ==
    /\ due \in sc.stops /\ now >= due
    /\ sc' = [sc EXCEPT !.stops = @ \ {due}, !.playing = @ \ {sc.audioID}]
    /\ out' = << Stop(sc.audioID) >>
    /\ ev' = "secondaryStop"
    /\ UNCHANGED <<host, now, plgVars, trgVars, rcvAll, sf>>

-----------------------------------------------------------------------------
(* Trigger and the role panel.                                             *)

Me == "u1"                       \* what user.getID() returns here
Users == {"u1", "u2"}
NoUser == "undefined"            \* this.userID before onLoad assigned it
Keys == Users \cup {NoUser}      \* the keys userRoles may get

\* the receiver's fields that readSettings assigns
readVars == <<currentState, currentIndex, currentDirection, staticStates,
              forwardTransitions, reverseTransitions, transitionMode,
              mappingArray, disableLocalAudio>>

\* (getField('inputType') || "On-Click").trim().toLowerCase()
InputTypeField == Lower(Trim(OrElse(tf.inputType, Name("On-Click"))))

PollsProximity(type) ==
    type \in {Name("proximity"), Name("multi-proximity")}

\* a trigger component; load "none": no trigger is attached
TriggerAt(load) ==
    [load |-> load, userID |-> NoUser, currentInputType |-> NoName,
     triggered |-> FALSE, timer |-> FALSE, intervals |-> 0, checker |-> FALSE,
     polls |-> <<>>]

\* this.timer = setInterval(checkProximity, 100): the handle held before is
\* overwritten, its interval keeps running
StartTimer(t) == [t EXCEPT !.timer = TRUE, !.intervals = @ + 1]

\* if (this.timer) { clearInterval(this.timer); this.timer = null }
ClearTimer(t) ==
    IF t.timer THEN [t EXCEPT !.timer = FALSE, !.intervals = @ - 1] ELSE t

\* TriggerComponent.onLoad after getID (lines 330-335; 1121-1131); it also
\* resumes when onUnload ran meanwhile ("unloading")
TriggerLoaded(t) ==
    LET typed == [t EXCEPT !.userID = Me,
                           !.currentInputType = InputTypeField,
                           !.load = IF t.load = "loading" THEN "loaded"
                                    ELSE "unloaded",
                           !.checker = (build = 2)]
    IN  IF PollsProximity(InputTypeField) THEN StartTimer(typed) ELSE typed

\* TriggerComponent.onSettingsUpdated (lines 339-362; 1134-1151)
TriggerSettingsUpdated(t) ==
    LET new == InputTypeField
        seen == IF new # t.currentInputType
                THEN ClearTimer([t EXCEPT !.currentInputType = new,
                                          !.triggered = FALSE])
                ELSE t
    IN  IF PollsProximity(new)
        THEN (IF build = 1 /\ seen.timer THEN seen ELSE StartTimer(seen))
        ELSE ClearTimer(seen)

\* trigger() without role gating
TriggerGateMutant(roles) == TRUE

\* trigger(), lines 434-443 (second definitions: 1216-1219): true when the
\* call goes on
TriggerGate(roles) ==
    (tf.roleRestricted /\ tf.requiredRole # NoName) =>
        /\ build = 1 => IsValidRole(tf.requiredRole)
        /\ IndexOf(roles, tf.requiredRole) # -1

\* trigger() that grants no role
TriggerAssignMutant(roles) == userRoles

\* trigger(), lines 444-453 (second definitions: 1221-1223)
TriggerAssign(roles) ==
    IF /\ tf.assignRole # NoName
       /\ build = 1 => IsValidRole(tf.assignRole)
       /\ IndexOf(roles, tf.assignRole) = -1
    THEN AssignUserRole(userRoles, tc.userID, tf.assignRole)
    ELSE userRoles

\* trigger() up to await this.plugin.user.isAdmin() (lines 424-455); the
\* suspended call holds what the host will answer about the acting user
TriggerCall ==
    IF TriggerGate(GetUserRoles(tc.userID))
    THEN /\ Len(pendingSend) < MaxPending
         /\ userRoles' = TriggerAssign(GetUserRoles(tc.userID))
         /\ \E isAdmin \in BOOLEAN :
               pendingSend' = Append(pendingSend,
                                     [actionID |-> OrElse(tf.actionID, NoName),
                                      isAdmin |-> isAdmin])
    ELSE UNCHANGED <<userRoles, pendingSend>>

\* onLoad resumes after user.getID()
TriggerLoadDone ==
    /\ tc.load \in {"loading", "unloading"}
    /\ tc' = TriggerLoaded(tc)
    /\ tc'.intervals <= MaxIntervals
    /\ ev' = "triggerLoad" /\ out' = <<>>
    /\ UNCHANGED <<atUnload, secVars, host, now, userRoles, availableRoles, tf, pendingSend,
                   rcvAll>>

\* the trigger is in plugin.triggerComponents: from the push in onLoad (line
\* 328) to the splice in onUnload (lines 373-376)
TriggerRegistered == tc.load \in {"loading", "loaded"}

\* TriggerComponent.onUnload (lines 364-378; 1154-1167)
TriggerOnUnload ==
    /\ TriggerRegistered
    /\ tc' = [ClearTimer(tc) EXCEPT
                 !.checker = FALSE,
                 !.load = IF tc.load = "loading" THEN "unloading"
                          ELSE "unloaded"]
    /\ ev' = "triggerUnload" /\ out' = <<>>
    /\ UNCHANGED <<atUnload, secVars, host, now, userRoles, availableRoles, tf, pendingSend,
                   rcvAll>>

\* the host tells the loaded trigger that its settings changed; Save Roles
\* (lines 118-129, first definitions) calls every registered trigger
TriggerOnSettingsUpdated ==
    /\ tc.load = "loaded" \/ (tc.load = "loading" /\ build = 1)
    /\ tc' = TriggerSettingsUpdated(tc)
    /\ tc'.intervals <= MaxIntervals
    /\ ev' = "triggerSettings" /\ out' = <<>>
    /\ UNCHANGED <<atUnload, secVars, host, now, userRoles, availableRoles, tf, pendingSend,
                   rcvAll>>

\* the 500 ms inputTypeChecker of the second definitions (lines 1125-1130)
InputTypeChecker ==
    /\ tc.checker
    /\ tc' = IF InputTypeField # tc.currentInputType
             THEN TriggerSettingsUpdated(tc) ELSE tc
    /\ tc'.intervals <= MaxIntervals
    /\ ev' = "inputTypeChecker" /\ out' = <<>>
    /\ UNCHANGED <<atUnload, secVars, host, now, userRoles, availableRoles, tf, pendingSend,
                   rcvAll>>

\* onClick (lines 380-385); the host delivers clicks to a loaded component
OnClick ==
    /\ tc.load = "loaded"
    /\ IF InputTypeField = Name("on-click")
       THEN TriggerCall
       ELSE UNCHANGED <<userRoles, pendingSend>>
    /\ ev' = "onClick" /\ out' = <<>>
    /\ UNCHANGED <<atUnload, secVars, host, now, availableRoles, tf, tc, rcvAll>>

\* a checkProximity call suspended at a host call (lines 388-390, 409): the
\* constants it read before, and what the host call resolves to
Poll(pc, inputType, radius, distance, users) ==
    [pc |-> pc, inputType |-> inputType, radius |-> radius,
     distance |-> distance, users |-> users]

\* position in `polls` of the call that host call `pc` resolves next (the
\* host answers the calls of one kind in the order they were made), or 0
FirstAt(polls, pc) ==
    LET at == {i \in 1..Len(polls) : polls[i].pc = pc}
    IN  IF at = {} THEN 0 ELSE CHOOSE i \in at : \A k \in at : i <= k

RemoveAt(polls, i) == SubSeq(polls, 1, i - 1) \o SubSeq(polls, i + 1, Len(polls))

\* checkProximity, lines 388-390: an interval runs it; it reads its settings
\* and waits for getPosition, which will resolve to `distance`
PollStart(distance, maxPolls) ==
    /\ tc.intervals > 0
    /\ Len(tc.polls) < maxPolls
    /\ tc' = [tc EXCEPT !.polls =
                 Append(@, Poll("getPosition", InputTypeField,
                                NumberOr(tf.proximityDistance, 2), distance,
                                <<>>))]
    /\ ev' = "pollStart" /\ out' = <<>>
    /\ UNCHANGED <<atUnload, secVars, host, now, userRoles, availableRoles, tf, pendingSend,
                   rcvAll>>

\* checkProximity that fires at every poll inside the radius
ProximityFiresMutant(inside, triggered) == inside

\* checkProximity, lines 395-396: inside and not fired yet
ProximityFires(inside, triggered) == inside /\ ~triggered

\* checkProximity that fires at every poll with enough users
MultiFiresMutant(count, required, triggered) == count >= required

\* checkProximity, line 414
MultiFires(count, required, triggered) == count >= required /\ ~triggered

\* checkProximity after getPosition, lines 391-409: proximity mode decides;
\* multi-proximity goes on to getNearbyUsers, which will resolve to `users`
PollPosition(users) ==
    /\ FirstAt(tc.polls, "getPosition") # 0
    /\ LET i == FirstAt(tc.polls, "getPosition")
           p == tc.polls[i]
           inside == p.distance <= p.radius
           rest == RemoveAt(tc.polls, i)
       IN  IF p.inputType = Name("proximity")
           THEN IF ProximityFires(inside, tc.triggered)
                THEN /\ tc' = [tc EXCEPT !.triggered = TRUE, !.polls = rest]
                     /\ TriggerCall
                ELSE /\ tc' = [tc EXCEPT !.triggered = IF inside THEN @
                                                       ELSE FALSE,
                                         !.polls = rest]
                     /\ UNCHANGED <<userRoles, pendingSend>>
           ELSE /\ tc' = IF p.inputType # Name("multi-proximity")
                         THEN [tc EXCEPT !.polls = rest]
                         ELSE IF ~inside
                         THEN [tc EXCEPT !.triggered = FALSE, !.polls = rest]
                         ELSE [tc EXCEPT !.polls[i] =
                                  Poll("getNearbyUsers", p.inputType, p.radius,
                                       p.distance, users)]
                /\ UNCHANGED <<userRoles, pendingSend>>
    /\ ev' = "checkProximity" /\ out' = <<>>
    /\ UNCHANGED <<atUnload, secVars, host, now, availableRoles, tf, rcvAll>>

\* users.filter(u => typeof u.distance === 'number' && u.distance <= d).length
\* (a distance of -1 stands for one that is not a number)
CountNearby(users, d) ==
    Cardinality({i \in 1..Len(users) : users[i] >= 0 /\ users[i] <= d})

\* checkProximity after getNearbyUsers, lines 410-420
PollUsers ==
    /\ FirstAt(tc.polls, "getNearbyUsers") # 0
    /\ LET i == FirstAt(tc.polls, "getNearbyUsers")
           p == tc.polls[i]
           count == CountNearby(p.users, p.radius)
           required == NumberOr(tf.requiredUserCount, 2)
           rest == RemoveAt(tc.polls, i)
       IN  IF MultiFires(count, required, tc.triggered)
           THEN /\ tc' = [tc EXCEPT !.triggered = TRUE, !.polls = rest]
                /\ TriggerCall
           ELSE /\ tc' = [tc EXCEPT !.triggered = IF count < required
                                                  THEN FALSE ELSE @,
                                    !.polls = rest]
                /\ UNCHANGED <<userRoles, pendingSend>>
    /\ ev' = "checkUsers" /\ out' = <<>>
    /\ UNCHANGED <<atUnload, secVars, host, now, availableRoles, tf, rcvAll>>

\* trigger() after isAdmin(): plugin.messages.send (lines 457-464)
TriggerSend ==
    /\ pendingSend # <<>>
    /\ out' = << [op |-> "send", action |-> "trigger",
                  actionID |-> Head(pendingSend).actionID,
                  userID |-> tc.userID,
                  isAdmin |-> Head(pendingSend).isAdmin] >>
    /\ pendingSend' = Tail(pendingSend)
    /\ ev' = "triggerSend"
    /\ UNCHANGED <<atUnload, secVars, host, now, userRoles, availableRoles, tf, tc, rcvAll>>

\* the role handlers end by calling onSettingsUpdated on the registered
\* components, unless the field named by `focus` is being edited
\* (lines 263-273, 281-291)
NotifyComponents(focus) ==
    /\ tc' = IF TriggerRegistered /\ focus \notin {"requiredRole", "assignRole"}
             THEN TriggerSettingsUpdated(tc) ELSE tc
    /\ tc'.intervals <= MaxIntervals
    /\ IF Registered /\ focus # "requiredRole"
       THEN ReadSettings(currentState, currentDirection)
       ELSE UNCHANGED readVars

\* window message 'updateRoles' (lines 257-274)
UpdateRoles(text, focus) ==
    /\ build = 1
    /\ text # availableRoles
    /\ availableRoles' = text
    /\ NotifyComponents(focus)
    /\ ev' = "updateRoles" /\ out' = <<>>
    /\ UNCHANGED <<atUnload, secVars, host, now, userRoles, tf, pendingSend, rf, loadState,
                   processingTransition, lastTriggerTime, conts, timers, inbox,
                   props, hist, audio>>

\* clearAllRoles (lines 56-59; 966-969), in the first definitions called by
\* the window message 'clearAllRoles' (lines 275-292)
ClearAllRoles(focus) ==
    /\ userRoles' = [u \in Keys |-> <<>>]
    /\ IF build = 1 THEN NotifyComponents(focus)
       ELSE UNCHANGED <<tc, readVars>>
    /\ ev' = "clearAllRoles" /\ out' = <<>>
    /\ UNCHANGED <<atUnload, secVars, host, now, availableRoles, tf, pendingSend, rf, loadState,
                   processingTransition, lastTriggerTime, conts, timers, inbox,
                   props, hist, audio>>

\* the designer edits the trigger's settings
EditTrigger(fields) ==
    /\ fields # tf
    /\ tf' = fields
    /\ ev' = "edit" /\ out' = <<>>
    /\ UNCHANGED <<atUnload, secVars, host, now, userRoles, availableRoles, tc, pendingSend,
                   rcvAll>>

-----------------------------------------------------------------------------
(* Initial states.                                                         *)

\* the registered defaults of the receiver's settings (lines 203-242), with
\* the action "A" typed in (ActionID has no default)
ReceiverDefaults ==
    [actionID |-> Name("A"), adminOnly |-> FALSE, roleRestricted |-> FALSE,
     requiredRole |-> NoName, animationMode |-> Name("Reactive"),
     sound |-> NoName, volume |-> 1, disableLocalAudio |-> FALSE,
     reactiveAnimation |-> Name("active"),
     defaultAnimation |-> Name("default"), cooldown |-> 1,
     transitionMode |-> Name("Cycle"), staticStates |-> DefaultStaticStates,
     forwardTransitions |-> DefaultForward,
     reverseTransitions |-> DefaultReverse,
     initialState |-> Name("static01"),
     transitionMapping |-> EmptyArray]

\* the registered defaults of the trigger's settings (lines 174-191), with the
\* action "A" typed in
TriggerDefaults ==
    [inputType |-> Name("On-Click"), proximityDistance |-> 2,
     requiredUserCount |-> 2, actionID |-> Name("A"), adminOnly |-> FALSE,
     roleRestricted |-> FALSE, requiredRole |-> NoName, assignRole |-> NoName]

NoProps ==
    [animation |-> NoName, currentState |-> NoName,
     currentDirection |-> UnsetDirection]

\* no onUnload has run
NoSnapshot ==
    [unloaded |-> FALSE, currentState |-> NoName, currentIndex |-> UndefinedIndex,
     currentDirection |-> UnsetDirection, length |-> 0, props |-> NoProps]

\* a component instance before onLoad assigned anything (class fields: none)
FreshComponent ==
    /\ currentState = NoName
    /\ currentIndex = UndefinedIndex
    /\ currentDirection = UnsetDirection
    /\ processingTransition = FALSE
    /\ lastTriggerTime = UndefinedTime
    /\ staticStates = <<>>
    /\ forwardTransitions = UndefinedList
    /\ reverseTransitions = UndefinedList
    /\ transitionMode = NoName
    /\ mappingArray = UndefinedMapping
    /\ disableLocalAudio = FALSE
    /\ conts = {}
    /\ timers = {}
    /\ inbox = <<>>
    /\ fwdRun = 0
    /\ lastAccepted = UndefinedTime
    /\ audio = [audioID |-> 0, playing |-> {}, made |-> 0]
    /\ atUnload = NoSnapshot

\* a fresh component on the object whose animations are HostAnimations
FreshReceiver ==
    /\ FreshComponent
    /\ animations = HostAnimations

\* plugin fields (lines 32-40) and the clock
FreshPlugin ==
    /\ build \in {1, 2}
    /\ now = StartTime
    /\ ev = "init"
    /\ out = <<>>
    /\ userRoles = [u \in Keys |-> <<>>]
    /\ availableRoles = <<>>
    /\ pendingSend = <<>>

-----------------------------------------------------------------------------
(* A receiver in each animation mode, triggers arriving at any time.       *)

MappingAB ==
    [text |-> "json",
     value |-> << [from |-> Name("A"), to |-> Name("B"),
                   forward |-> Name("F"), return |-> Name("R"),
                   soundForward |-> NoName, soundReturn |-> NoName] >>]

ReactiveSettings == [ReceiverDefaults EXCEPT !.disableLocalAudio = TRUE]
CycleSettings == [ReceiverDefaults EXCEPT !.animationMode = Name("Transition"),
                                          !.disableLocalAudio = TRUE]
MappingSettings ==
    [ReceiverDefaults EXCEPT !.animationMode = Name("Transition"),
                             !.transitionMode = Name("Mapping"),
                             !.initialState = Name("A"),
                             !.transitionMapping = MappingAB]

ReceiverSettings == {ReactiveSettings, CycleSettings, MappingSettings}

TriggerMessage(actionID, userID, isAdmin) ==
    [action |-> "trigger", actionID |-> actionID, userID |-> userID,
     isAdmin |-> isAdmin]

InitReceiver ==
    /\ FreshPlugin
    /\ FreshReceiver
    /\ NoSecondary
    /\ rf \in ReceiverSettings
    /\ loadState = "loading"
    /\ props = NoProps
    /\ tf = TriggerDefaults
    /\ tc = TriggerAt("none")

NextReceiver ==
    \/ LoadDone
    \/ OnSettingsUpdated
    \/ SettingsChecker
    \/ PluginOnMessage(TriggerMessage(Name("A"), Me, FALSE))
    \/ ReceiverOnMessage
    \/ \E c \in conts : ResumeGetAnimations(c)
    \/ \E c \in conts : ResumeUpdate(c)
    \/ \E c \in conts : ResumeRevertUpdate(c)
    \/ \E t \in timers : FireRevert(t)
    \/ \E t \in timers : FireClearFlag(t)
    \/ \E t \in timers : FireCommitCycle(t)
    \/ \E t \in timers : FireCommitMapping(t)
    \/ Tick

SpecReceiver == InitReceiver /\ [][NextReceiver]_vars

-----------------------------------------------------------------------------
(* Claims on SpecReceiver.                                                 *)

\* what a reaction changes: animation and store, sound, relay messages,
\* scheduled work, and the receiver's position in its states
Reaction == <<props, audio, conts, timers, currentState, currentIndex,
              currentDirection>>

\* C1: a trigger that reaches handleTrigger while processingTransition is set
\* updates no animation, plays and relays no sound, leaves current state,
\* index and direction alone and schedules nothing that would replay it.
C1_BusyTriggerDropped ==
    [][(ev' = "handleTrigger" /\ processingTransition)
          => (out' = <<>> /\ UNCHANGED Reaction)]_vars

\* a trigger passed the cooldown check while a transition was waiting for
\* its completion timer, and was dropped
C1_Witness ==
    /\ ev = "handleTrigger"
    /\ processingTransition
    /\ lastTriggerTime = now
    /\ lastAccepted < now
    /\ conts = {}
    /\ \E t \in timers : t.kind \in {"revert", "commitCycle", "commitMapping"}

\* C2: a matching trigger received before `cooldown` seconds have elapsed
\* since the last accepted trigger has no observable effect and mutates no
\* receiver state.
C2_CooldownDrop ==
    [][(/\ ev' = "handleTrigger"
        /\ lastAccepted # UndefinedTime
        /\ now - lastAccepted < NumberOr(rf.cooldown, DefaultCooldown) * 1000)
          => (out' = <<>> /\ UNCHANGED <<rcvVars, conts, timers, props, audio>>)]_vars

-----------------------------------------------------------------------------
(* A receiver in Transition / Cycle mode.                                  *)

CycleWith(states) ==
    [CycleSettings EXCEPT !.staticStates = states]

ThreeStates == DefaultStaticStates
TwoStates == <<"static01", ",", " ", "static02">>
OneState == <<"static02">>
RepeatedState == <<"static01", ",", "static01", ",", "static02">>

\* what the store may hold when the component is attached
StoredProps ==
    {NoProps, [NoProps EXCEPT !.currentState = Name("static02")]}

InitCycle ==
    /\ FreshPlugin
    /\ FreshReceiver
    /\ NoSecondary
    /\ rf = CycleWith(ThreeStates)
    /\ loadState = "loading"
    /\ props = NoProps
    /\ tf = TriggerDefaults
    /\ tc = TriggerAt("none")

NextCycleFixed ==
    \/ LoadDone
    \/ OnSettingsUpdated
    \/ SettingsChecker
    \/ PluginOnMessage(TriggerMessage(Name("A"), Me, FALSE))
    \/ ReceiverOnMessage
    \/ \E c \in conts : ResumeGetAnimations(c)
    \/ \E c \in conts : ResumeUpdate(c)
    \/ \E t \in timers : FireCommitCycle(t)
    \/ Tick

NextCycle ==
    \/ NextCycleFixed
    \/ \E states \in {TwoStates, OneState} :
          /\ Len(states) < Len(rf.staticStates)
          /\ EditReceiver(CycleWith(states))

\* the static-states list is shortened while the receiver runs
SpecCycle == InitCycle /\ [][NextCycle]_vars

InitCycleFixed ==
    /\ FreshPlugin
    /\ FreshReceiver
    /\ NoSecondary
    /\ rf \in {CycleWith(states) :
                 states \in {ThreeStates, OneState, RepeatedState}}
    /\ loadState = "loading"
    /\ props \in StoredProps
    /\ tf = TriggerDefaults
    /\ tc = TriggerAt("none")

\* the settings stay as they were when the receiver was attached
SpecCycleFixed == InitCycleFixed /\ [][NextCycleFixed]_vars

-----------------------------------------------------------------------------
(* Claims on the cycle specifications.                                     *)

\* the receiver takes Cycle-mode decisions: what handleTrigger reads live
CycleMode ==
    /\ AnimationModeField = Name("Transition")
    /\ TransitionModeField = Name("Cycle")

\* handleTrigger passes its two guards (lines 592-597)
Accepts ==
    /\ ~InCooldown(now, lastTriggerTime, NumberOr(rf.cooldown, DefaultCooldown))
    /\ ~Busy

\* C3: whenever a loaded Cycle receiver holds a non-empty list of static
\* states, its current state is one of them and its index lies in
\* 0..length-1, also after the list was shortened while a transition was in
\* flight.
C3_CycleInvariant ==
    (loadState = "loaded" /\ CycleMode /\ Len(staticStates) > 0)
        => /\ Includes(staticStates, currentState)
           /\ currentIndex \in 0..(Len(staticStates) - 1)

\* a re-read in Cycle mode that finds the current state missing from the
\* non-empty list it has just parsed
ResetByReread ==
    /\ ev' = "readSettings"
    /\ CycleMode
    /\ Len(staticStates') > 0
    /\ currentState # NoName
    /\ ~Includes(staticStates', currentState)

\* C4 as stated: such a re-read gives the first state, index 0 and direction
\* forward for every non-empty list, a single-element list included.
C4_RereadResetsForward ==
    [][ResetByReread
          => /\ currentState' = At(staticStates', 0)
             /\ currentIndex' = 0
             /\ currentDirection' = 1]_vars

\* C4: such a re-read gives the first state and index 0; the direction
\* becomes forward when the list has two states or more, and reverse when it
\* has one (index 0 is then the last index).
C4_RereadResets ==
    [][ResetByReread
          => /\ currentState' = At(staticStates', 0)
             /\ currentIndex' = 0
             /\ currentDirection' = IF Len(staticStates') >= 2 THEN 1 ELSE -1]_vars

\* the receiver stood at static03 when the list lost it, and the re-read put
\* it back on the first of two states, heading forward
C4_Witness ==
    /\ ev = "readSettings"
    /\ loadState = "loaded"
    /\ props.currentState = Name("static03")
    /\ staticStates = << Name("static01"), Name("static02") >>
    /\ currentState = Name("static01")
    /\ currentIndex = 0
    /\ currentDirection = 1

\* every state an update of the last step wrote to the object store is one
\* of the static states
WritesMembers ==
    \A i \in 1..Len(out) :
        (out[i].op = "update" /\ out[i].hasState)
            => Includes(staticStates, out[i].currentState)

\* C5 as stated: when the k-th accepted trigger of a forward run that began
\* at index 0 commits, with k below the length of the list, the index is k
\* and the states written to the store are members of the list.
C5_ForwardRun ==
    [][(ev' = "commitCycle" /\ fwdRun \in 1..(Len(staticStates) - 1))
          => (currentIndex' = fwdRun /\ WritesMembers')]_vars

\* an accepted trigger handled by handleTransitionCycle
CycleTrigger == ev' = "handleTrigger" /\ Accepts /\ CycleMode

\* the step leaves a transition towards index i at its first await, with the
\* single-flight flag set
HeadsFor(i) ==
    /\ processingTransition'
    /\ \E c \in conts' :
          c.pc = "getAnimations" /\ c.kind = "cycle" /\ c.nextIndex = i

\* a settings read in Cycle mode that finds no direction, neither in the
\* component nor in the object store
ReadsUnsetDirection ==
    /\ ev' \in {"onLoad", "readSettings"}
    /\ CycleMode
    /\ currentDirection = UnsetDirection
    /\ (ev' = "onLoad" => props.currentDirection = UnsetDirection)

-----------------------------------------------------------------------------
(* A receiver in Transition / Mapping mode with the mapping A -> B.        *)

InitMapping ==
    /\ FreshPlugin
    /\ FreshReceiver
    /\ NoSecondary
    /\ rf = MappingSettings
    /\ loadState = "loading"
    /\ props = NoProps
    /\ tf = TriggerDefaults
    /\ tc = TriggerAt("none")

NextMapping ==
    \/ LoadDone
    \/ OnSettingsUpdated
    \/ SettingsChecker
    \/ PluginOnMessage(TriggerMessage(Name("A"), Me, FALSE))
    \/ ReceiverOnMessage
    \/ \E c \in conts : ResumeGetAnimations(c)
    \/ \E c \in conts : ResumeUpdate(c)
    \/ \E t \in timers : FireCommitMapping(t)
    \/ Tick

SpecMapping == InitMapping /\ [][NextMapping]_vars

\* an accepted trigger handled by handleTransitionMapping
MappingTrigger ==
    /\ ev' = "handleTrigger"
    /\ Accepts
    /\ AnimationModeField = Name("Transition")
    /\ TransitionModeField # Name("Cycle")

\* the step leaves a transition at its first await that will play `anim`
\* and end in `state`
Starts(anim, state) ==
    /\ processingTransition'
    /\ \E c \in conts' :
          /\ c.pc = "getAnimations" /\ c.kind = "mapping"
          /\ c.anim = anim /\ c.target = state

\* no transition is in flight
Settled == conts = {} /\ timers = {} /\ ~processingTransition

\* C7: with the mapping A -> B (forward F, return R) a trigger accepted in
\* state A starts F towards B; once a transition has ended in B (B is what
\* the store holds) and none is in flight, the next accepted trigger starts
\* R towards A, whatever settings reads happened in between.
C7_MappingRoundTrip ==
    [][/\ (MappingTrigger /\ loadState = "loaded" /\ Settled
             /\ currentState = Name("A") /\ props.currentState # Name("B"))
            => Starts(Name("F"), Name("B"))
       /\ (MappingTrigger /\ loadState = "loaded" /\ Settled
             /\ props.currentState = Name("B"))
            => Starts(Name("R"), Name("A"))]_vars

-----------------------------------------------------------------------------
(* A trigger and the role panel; no receiver is attached.                  *)

\* how the roles of a trigger may be configured
RoleSettings ==
    {TriggerDefaults,
     [TriggerDefaults EXCEPT !.assignRole = Name("vip")],
     [TriggerDefaults EXCEPT !.roleRestricted = TRUE,
                             !.requiredRole = Name("vip")],
     [TriggerDefaults EXCEPT !.roleRestricted = TRUE,
                             !.requiredRole = Name("vip"),
                             !.assignRole = Name("gold")],
     [TriggerDefaults EXCEPT !.roleRestricted = TRUE]}

InputTypes == {Name("On-Click"), Name("Proximity"), Name("Multi-Proximity")}

TriggerSettings ==
    {[r EXCEPT !.inputType = i] : r \in RoleSettings, i \in InputTypes}

\* what the role panel may send as the list of valid roles
RoleTexts == {<<>>, <<"vip">>, <<"gold", ",", " ", "vip">>}

\* who is editing which field when a role message arrives
Focus == {"body", "requiredRole"}

\* what getPosition and getNearbyUsers may report
Distances == {1, 3}
NearbyUsers == {<<>>, <<1, -1>>, <<1, 2>>}

InitTrigger ==
    /\ FreshPlugin
    /\ FreshReceiver
    /\ NoSecondary
    /\ rf = ReceiverDefaults
    /\ loadState = "none"
    /\ props = NoProps
    /\ tf \in TriggerSettings
    /\ tc = TriggerAt("loading")

NextTrigger ==
    \/ TriggerLoadDone
    \/ TriggerOnSettingsUpdated
    \/ InputTypeChecker
    \/ OnClick
    \/ \E d \in Distances : PollStart(d, 1)
    \/ \E users \in NearbyUsers : PollPosition(users)
    \/ PollUsers
    \/ TriggerSend
    \/ \E text \in RoleTexts, focus \in Focus : UpdateRoles(text, focus)
    \/ \E focus \in Focus : ClearAllRoles(focus)
    \/ \E fields \in TriggerSettings :    \* the role settings are edited
          fields.inputType = tf.inputType /\ EditTrigger(fields)

SpecTrigger == InitTrigger /\ [][NextTrigger]_vars

\* the step is a fire attempt: a click on an On-Click trigger, or a
\* proximity check that sets the one-shot flag; both call trigger()
FireAttempt ==
    \/ ev' = "onClick" /\ InputTypeField = Name("on-click")
    \/ /\ ev' \in {"checkProximity", "checkUsers"}
       /\ ~tc.triggered /\ tc'.triggered

\* trigger() went on to its broadcast: the call now waits for isAdmin()
\* and TriggerSend sends its message
Broadcasts == Len(pendingSend') = Len(pendingSend) + 1

\* the trigger is restricted to a role, and the acting user holds it
Restricted == tf.roleRestricted /\ tf.requiredRole # NoName
HoldsRequired == Includes(GetUserRoles(Me), tf.requiredRole)

\* times x occurs in list
Count(list, x) == Cardinality({i \in 1..Len(list) : list[i] = x})

\* every resumed call sends one trigger message for the action it read
SendsTrigger ==
    ev' = "triggerSend"
        => /\ Len(out') = 1
           /\ out'[1].op = "send" /\ out'[1].action = "trigger"
           /\ out'[1].actionID = Head(pendingSend).actionID

\* C8: a fire attempt (click, proximity, multi-proximity) on a role-restricted
\* trigger by a user who does not hold the required role broadcasts nothing,
\* and one by a user who holds it broadcasts (granted: when the role is in
\* the list of valid roles, which the first definitions also ask for).
C8_RoleGate ==
    [][/\ (FireAttempt /\ Restricted /\ ~HoldsRequired) => ~Broadcasts
       /\ (FireAttempt /\ Restricted /\ HoldsRequired
             /\ IsValidRole(tf.requiredRole)) => Broadcasts
       /\ SendsTrigger]_vars

\* no user holds a role twice
NoDuplicateRoles ==
    \A u \in Keys :
        \A i, j \in 1..Len(userRoles[u]) :
            userRoles[u][i] = userRoles[u][j] => i = j

\* the fire attempt is aborted by role gating
Aborted == ~Broadcasts

\* C9: a fire of a trigger with a (valid) role to assign that passes gating
\* leaves the acting user holding that role exactly once, a fire aborted by
\* role gating changes no roles, and no role is ever held twice.
C9_AssignOnce ==
    [][/\ (FireAttempt /\ tf.assignRole # NoName /\ Broadcasts
             /\ IsValidRole(tf.assignRole))
            => Count(userRoles'[Me], tf.assignRole) = 1
       /\ (FireAttempt /\ Aborted) => UNCHANGED userRoles
       /\ NoDuplicateRoles']_vars

-----------------------------------------------------------------------------
(* A gated receiver, a trigger that grants a role, and the messages of the *)
(* space.                                                                  *)

\* receivers: open, restricted to vip, for admins, both, and one whose
\* ActionID was never typed in (the setting has no default, lines 203-204)
GateSettings ==
    {ReactiveSettings,
     [ReactiveSettings EXCEPT !.roleRestricted = TRUE,
                              !.requiredRole = Name("vip")],
     [ReactiveSettings EXCEPT !.adminOnly = TRUE],
     [ReactiveSettings EXCEPT !.roleRestricted = TRUE,
                              !.requiredRole = Name("vip"),
                              !.adminOnly = TRUE],
     [ReactiveSettings EXCEPT !.actionID = Undefined]}

\* the message a receiver with local audio disabled sends from its reaction
\* (lines 646-652): it has no actionID, userID or isAdmin key
RelayMessage ==
    [action |-> "relaySound", actionID |-> Undefined, userID |-> NoUser,
     isAdmin |-> FALSE]

\* triggers of the role holder-to-be and of a user without roles, for the
\* receiver's action and for another one, and a relayed sound
GateMessages ==
    {TriggerMessage(Name("A"), Me, TRUE), TriggerMessage(Name("A"), Me, FALSE),
     TriggerMessage(Name("A"), "u2", TRUE), TriggerMessage(Name("B"), Me, TRUE),
     RelayMessage}

InitGate ==
    /\ FreshPlugin
    /\ FreshReceiver
    /\ NoSecondary
    /\ rf \in GateSettings
    /\ loadState = "loading"
    /\ props = NoProps
    /\ tf = [TriggerDefaults EXCEPT !.assignRole = Name("vip")]
    /\ tc = TriggerAt("loading")

NextGate ==
    \/ TriggerLoadDone
    \/ OnClick
    \/ TriggerSend
    \/ \E text \in {<<>>, <<"vip">>} : UpdateRoles(text, "body")
    \/ ClearAllRoles("body")
    \/ LoadDone
    \/ \E msg \in GateMessages : PluginOnMessage(msg)
    \/ ReceiverOnMessage
    \/ \E c \in conts : ResumeGetAnimations(c)
    \/ \E c \in conts : ResumeUpdate(c)

SpecGate == InitGate /\ [][NextGate]_vars

\* the receiver's onMessage ran on the message at the head of its inbox
Delivered == ev' \in {"handleTrigger", "onMessage"}

\* the message is a trigger event for the receiver's action that passes its
\* gating
PassesGating(msg) ==
    /\ msg.was = "trigger"
    /\ msg.actionID = rf.actionID
    /\ (rf.roleRestricted /\ rf.requiredRole # NoName)
          => /\ Includes(GetUserRoles(msg.userID), rf.requiredRole)
             /\ IsValidRole(rf.requiredRole)
    /\ rf.adminOnly => msg.isAdmin

\* C10: the receiver starts a reaction only for a trigger event with its
\* action identifier that passes its gating (role held by msg.userID and
\* valid; isAdmin when admin-only); every other event leaves it unchanged.
C10_ReceiverGate ==
    [][Delivered =>
         /\ (Accepts /\ ev' = "handleTrigger") => PassesGating(Head(inbox))
         /\ ~PassesGating(Head(inbox))
               => (out' = <<>>
                   /\ UNCHANGED <<rcvVars, conts, timers, props, audio>>)]_vars

-----------------------------------------------------------------------------
(* A trigger with Admin Only checked.                                      *)

AdminSettings ==
    {[TriggerDefaults EXCEPT !.adminOnly = TRUE, !.assignRole = Name("vip"),
                             !.inputType = i] :
        i \in {Name("On-Click"), Name("Proximity")}}

InitAdmin ==
    /\ FreshPlugin
    /\ FreshReceiver
    /\ NoSecondary
    /\ rf = ReceiverDefaults
    /\ loadState = "none"
    /\ props = NoProps
    /\ tf \in AdminSettings
    /\ tc = TriggerAt("loading")

NextAdmin ==
    \/ TriggerLoadDone
    \/ TriggerOnSettingsUpdated
    \/ InputTypeChecker
    \/ OnClick
    \/ \E d \in Distances : PollStart(d, 1)
    \/ PollPosition(<<>>)
    \/ TriggerSend
    \/ \E text \in {<<>>, <<"vip">>} : UpdateRoles(text, "body")
    \/ ClearAllRoles("body")
    \/ \E fields \in AdminSettings : EditTrigger(fields)

SpecAdmin == InitAdmin /\ [][NextAdmin]_vars

\* the fire attempt is a non-admin's: the host answers false to the isAdmin()
\* the call is suspended at
ByNonAdmin ==
    Broadcasts => ~pendingSend'[Len(pendingSend')].isAdmin

\* C11: with Admin Only checked on the trigger, a click or proximity event
\* of a non-admin user broadcasts no trigger message and assigns no role.
C11_AdminOnlyTrigger ==
    [][(FireAttempt /\ tf.adminOnly /\ ByNonAdmin)
          => (~Broadcasts /\ UNCHANGED userRoles)]_vars

-----------------------------------------------------------------------------
(* A trigger polled by its proximity intervals while its input type is     *)
(* edited.                                                                 *)

ProximitySettings == {[TriggerDefaults EXCEPT !.inputType = i] : i \in InputTypes}

InitProximity ==
    /\ FreshPlugin
    /\ FreshReceiver
    /\ NoSecondary
    /\ rf = ReceiverDefaults
    /\ loadState = "none"
    /\ props = NoProps
    /\ tf \in ProximitySettings
    /\ tc = TriggerAt("loading")

NextProximity ==
    \/ TriggerLoadDone
    \/ TriggerOnSettingsUpdated
    \/ InputTypeChecker
    \/ \E d \in Distances : PollStart(d, MaxPolls)
    \/ \E users \in NearbyUsers : PollPosition(users)
    \/ PollUsers
    \/ TriggerSend
    \/ ClearAllRoles("body")
    \/ \E fields \in ProximitySettings : EditTrigger(fields)

SpecProximity == InitProximity /\ [][NextProximity]_vars

\* the trigger is in proximity mode: configured so, has taken note of it, and
\* every poll in flight started in that mode
InProximityMode ==
    /\ InputTypeField = Name("proximity")
    /\ tc.currentInputType = Name("proximity")
    /\ \A i \in 1..Len(tc.polls) : tc.polls[i].inputType = Name("proximity")

\* the call that resumes from getPosition in this step
PositionPoll == tc.polls[FirstAt(tc.polls, "getPosition")]

\* a poll started in proximity mode observes the user inside / outside the
\* configured radius
ObservedInside ==
    /\ ev' = "checkProximity"
    /\ PositionPoll.inputType = Name("proximity")
    /\ PositionPoll.distance <= NumberOr(tf.proximityDistance, 2)
ObservedOutside ==
    /\ ev' = "checkProximity"
    /\ PositionPoll.inputType = Name("proximity")
    /\ PositionPoll.distance > NumberOr(tf.proximityDistance, 2)

InMultiMode ==
    /\ InputTypeField = Name("multi-proximity")
    /\ tc.currentInputType = Name("multi-proximity")
    /\ \A i \in 1..Len(tc.polls) : tc.polls[i].inputType = Name("multi-proximity")

\* the call that resumes from getNearbyUsers in this step, and what it saw
UsersPoll == tc.polls[FirstAt(tc.polls, "getNearbyUsers")]
SelfWithin == UsersPoll.distance <= NumberOr(tf.proximityDistance, 2)
OthersWithin == CountNearby(UsersPoll.users, NumberOr(tf.proximityDistance, 2))
RequiredCount == NumberOr(tf.requiredUserCount, 2)

ObservedEnough == ev' = "checkUsers" /\ SelfWithin /\ OthersWithin >= RequiredCount
ObservedTooFew == ev' = "checkUsers" /\ OthersWithin < RequiredCount
ObservedSelfOutside ==
    /\ ev' = "checkProximity"
    /\ PositionPoll.distance > NumberOr(tf.proximityDistance, 2)

-----------------------------------------------------------------------------
(* A secondary audio output and the messages the plugin hands to it.       *)

RelaySettings ==
    {[sourceID |-> x] : x \in {Undefined, Name("obj1"), Name("obj2")}}

\* a relaySound message as the receivers build it (lines 646-652, 846-852)
RelayMessageFrom(sourceID, duration) ==
    [action |-> "relaySound", actionID |-> Undefined, userID |-> NoUser,
     isAdmin |-> FALSE, sourceID |-> sourceID, soundFile |-> Name("ding.mp3"),
     volume |-> 1, duration |-> duration]

\* relayed sounds of two objects, and a trigger (forwarded as it is)
RelayMessages ==
    {RelayMessageFrom(Name("obj1"), TickMs), RelayMessageFrom(Name("obj2"), 0),
     TriggerMessage(Name("A"), Me, TRUE)}

InitRelay ==
    /\ FreshPlugin
    /\ FreshReceiver
    /\ rf = ReceiverDefaults
    /\ loadState = "none"
    /\ props = NoProps
    /\ tf = TriggerDefaults
    /\ tc = TriggerAt("none")
    /\ sf \in RelaySettings
    /\ sc = SecondaryAt("loading")

NextRelay ==
    \/ SecondaryLoadDone
    \/ SecondaryOnSettingsUpdated
    \/ \E fields \in RelaySettings : EditSecondary(fields)
    \/ \E msg \in RelayMessages : PluginOnMessage(msg)
    \/ SecondaryOnMessage
    \/ \E c \in sc.plays : SecondaryResumePlay(c)
    \/ \E due \in sc.stops : SecondaryStop(due)
    \/ Tick

SpecRelay == InitRelay /\ [][NextRelay]_vars

\* the component holds the source its setting names
SourceNoted == sc.load = "loaded" => sc.sourceID = SourceIDField

\* the message onMessage is handed names the configured source
FromConfiguredSource ==
    /\ Head(sc.inbox).action = "relaySound"
    /\ Key(Head(sc.inbox), "sourceID") = SourceIDField

\* C14: the secondary relay starts a playback only for a relaySound message
\* whose sourceID is the configured one; for any other message (another
\* source, or not a relaySound, such as a forwarded trigger) onMessage does
\* nothing: no host call, no playback, no timer.
C14_RelayOnlyConfiguredSource ==
    [][(ev' = "secondaryMessage" /\ SourceNoted /\ ~FromConfiguredSource)
          => (out' = <<>> /\ sc' = [sc EXCEPT !.inbox = Tail(@)])]_vars

\* a message from the configured source has started a playback and a later
\* message has been dropped
C14_Witness ==
    /\ ev = "secondaryMessage"
    /\ out = <<>>
    /\ sc.load = "loaded"
    /\ sc.made > 0

-----------------------------------------------------------------------------
(* Receivers with a sound configured, local audio enabled or disabled.     *)

MappingOverride ==
    [text |-> "json",
     value |-> << [from |-> Name("A"), to |-> Name("B"),
                   forward |-> Name("F"), return |-> Name("R"),
                   soundForward |-> Name("over.mp3"),
                   soundReturn |-> Name("back.mp3")] >>]

SoundModes ==
    {ReceiverDefaults,
     [ReceiverDefaults EXCEPT !.animationMode = Name("Transition")],
     MappingSettings,
     [MappingSettings EXCEPT !.transitionMapping = MappingOverride]}

SoundSettings ==
    {[m EXCEPT !.sound = Name("ding.mp3"), !.disableLocalAudio = d] :
        m \in SoundModes, d \in BOOLEAN}

InitSound ==
    /\ FreshPlugin
    /\ FreshReceiver
    /\ NoSecondary
    /\ rf \in SoundSettings
    /\ loadState = "loading"
    /\ props = NoProps
    /\ tf = TriggerDefaults
    /\ tc = TriggerAt("none")

NextSound ==
    \/ LoadDone
    \/ SettingsChecker
    \/ PluginOnMessage(TriggerMessage(Name("A"), Me, FALSE))
    \/ ReceiverOnMessage
    \/ \E c \in conts : ResumeGetAnimations(c)
    \/ \E c \in conts : ResumeUpdate(c)
    \/ \E c \in conts : ResumePlayFile(c)
    \/ \E c \in conts : ResumeAudioPlay(c)
    \/ \E c \in conts : ResumeRevertUpdate(c)
    \/ \E t \in timers : FireStopAudio(t)
    \/ \E t \in timers : FireRevert(t)
    \/ \E t \in timers : FireClearFlag(t)
    \/ \E t \in timers : FireCommitCycle(t)
    \/ \E t \in timers : FireCommitMapping(t)
    \/ Tick

SpecSound == InitSound /\ [][NextSound]_vars

\* the handler of an accepted trigger reaches its sound rule in this step
AtSoundRule(c) == c \in conts /\ c.pc = "update" /\ c \notin conts'

\* the sound the rule is about: the entry's override, else the general one
SoundOf(c) ==
    IF c.kind = "mapping" /\ Len(Trim(c.soundFile)) > 0
    THEN c.soundFile ELSE rf.sound

\* the host returns from the audio.play the handler called
PlayReturns(c) ==
    c \in conts /\ c.pc \in {"audioPlay", "playFile"} /\ c \notin conts'

\* the step broadcasts a relaySound for that sound
RelaysSound(file) ==
    \E i \in 1..Len(out') :
        /\ out'[i].op = "send" /\ out'[i].action = "relaySound"
        /\ out'[i].sourceID = ObjectID /\ out'[i].soundFile = file

\* C15: in every mode the handler of an accepted trigger, with a sound
\* configured, does this: with local audio disabled it starts no playback
\* and broadcasts the relaySound message (source, sound, volume, duration);
\* with local audio enabled it starts the local playback, and the
\* relaySound message is broadcast once the host has started it.
C15_SoundRule ==
    [][\A c \in conts :
         /\ (AtSoundRule(c) /\ disableLocalAudio)
               => /\ out' = << RelaySound(SoundOf(c), Volume, c.duration) >>
                  /\ UNCHANGED audio
         /\ (AtSoundRule(c) /\ ~disableLocalAudio)
               => out' = << Play(SoundOf(c), Volume) >>
         /\ PlayReturns(c) => RelaysSound(c.soundFile)
      ]_vars

-----------------------------------------------------------------------------
(* The Reactive scenario, on SpecReceiver.                                 *)

\* handleReactive resumes from getAnimationDuration / from objects.update
ReactiveAt(c, pc) ==
    c \in conts /\ c.kind = "reactive" /\ c.pc = pc /\ c \notin conts'

\* the accepted trigger switches the object to "active"
SwitchesToActive ==
    \A c \in conts : ReactiveAt(c, "getAnimations") =>
        /\ props'.animation = Name("active")
        /\ props'.currentState = Name("active")

\* the return to "default" is scheduled after the resolved duration
SchedulesDefault ==
    \A c \in conts : ReactiveAt(c, "update") =>
        \E t \in timers' :
            /\ t.kind = "revert" /\ t.target = Name("default")
            /\ t.due = now + GetAnimationDuration(HostAnimations, Name("active"))

\* and happens no earlier
SwitchesToDefault ==
    \A t \in timers : (t.kind = "revert" /\ t \notin timers') =>
        /\ now >= t.due
        /\ props'.animation = Name("default")
        /\ props'.currentState = Name("default")

\* a trigger within one second of the last accepted one is rejected
RejectsWithinCooldown ==
    (/\ ev' = "handleTrigger"
     /\ lastAccepted # UndefinedTime
     /\ now - lastAccepted < 1000)
        => (out' = <<>> /\ UNCHANGED <<conts, timers, props, audio>>)

\* C16: a Reactive receiver (reactiveAnimation "active", defaultAnimation
\* "default", cooldown 1) that accepts a matching trigger switches to
\* "active", switches to "default" once the animation's resolved duration
\* has passed, and rejects every trigger that arrives within one second of
\* the accepted one.
C16_ReactiveScenario ==
    [][rf = ReactiveSettings =>
         /\ SwitchesToActive
         /\ SchedulesDefault
         /\ SwitchesToDefault
         /\ RejectsWithinCooldown]_vars

-----------------------------------------------------------------------------
(* A Transition receiver that is unloaded and loaded again.                *)

InitReload ==
    /\ FreshPlugin
    /\ FreshReceiver
    /\ NoSecondary
    /\ rf \in {CycleWith(ThreeStates), MappingSettings}
    /\ loadState = "loading"
    /\ props = NoProps
    /\ tf = TriggerDefaults
    /\ tc = TriggerAt("none")

NextReload ==
    \/ LoadDone
    \/ SettingsChecker
    \/ PluginOnMessage(TriggerMessage(Name("A"), Me, FALSE))
    \/ ReceiverOnMessage
    \/ \E c \in conts : ResumeGetAnimations(c)
    \/ \E c \in conts : ResumeUpdate(c)
    \/ \E t \in timers : FireCommitCycle(t)
    \/ \E t \in timers : FireCommitMapping(t)
    \/ ReceiverOnUnload
    \/ Reattach
    \/ Tick

SpecReload == InitReload /\ [][NextReload]_vars

\* onLoad of the new instance completes; a transition was committed before
\* the unload, the old instance was at rest in that state and nothing has
\* touched the store since
ReloadCompletes ==
    /\ ev' = "onLoad"
    /\ loadState' = "loaded"
    /\ atUnload.unloaded
    /\ atUnload.props.currentState # NoName
    /\ atUnload.currentState = atUnload.props.currentState
    /\ props = atUnload.props

\* the direction a cycle receiver moves on its next trigger
NextMove(idx, len, dir) == CycleDirection(idx, len, dir)

\* C17: when a Transition receiver that committed a transition is unloaded
\* and loaded again with the same settings, its current state after the load
\* is the last committed state, and in Cycle mode the next trigger moves in
\* the direction it would have moved without the reload.
C17_ReloadRoundTrip ==
    [][ReloadCompletes =>
         /\ currentState' = atUnload.props.currentState
         /\ TransitionModeField = Name("Cycle") =>
               NextMove(currentIndex', Len(staticStates'), currentDirection')
                 = NextMove(atUnload.currentIndex, atUnload.length,
                            atUnload.currentDirection)]_vars

-----------------------------------------------------------------------------
(* Plugin sessions: the plugin is torn down and loaded again.              *)

\* a new trigger instance is loaded once the old one is at rest
TriggerReattach ==
    /\ tc.load = "unloaded"
    /\ tc.polls = <<>> /\ tc.intervals = 0 /\ ~tc.checker
    /\ tc' = TriggerAt("loading")
    /\ ev' = "triggerReattach" /\ out' = <<>>
    /\ UNCHANGED <<atUnload, secVars, host, now, userRoles, availableRoles, tf,
                   pendingSend, rcvAll>>

\* a new session: the fields of a new AssetLink instance (userRoles = {},
\* line 38) and its onLoad (lines 74-87), which reads the list of valid
\* roles back from localStorage, where every change of it was stored (lines
\* 119-121, 260-261) or removed (139-140, 278-279); taken when no component
\* of the old session is left
PluginReload ==
    /\ ~TriggerRegistered /\ ~Registered /\ ~sc.registered
    /\ pendingSend = <<>>
    /\ userRoles' = [u \in Keys |-> <<>>]
    /\ ev' = "pluginLoad" /\ out' = <<>>
    /\ UNCHANGED <<atUnload, secVars, host, now, availableRoles, tf, tc,
                   pendingSend, rcvAll>>

SessionSettings ==
    [TriggerDefaults EXCEPT !.assignRole = Name("vip")]

InitSession ==
    /\ FreshPlugin
    /\ FreshReceiver
    /\ NoSecondary
    /\ rf = ReceiverDefaults
    /\ loadState = "none"
    /\ props = NoProps
    /\ tf = SessionSettings
    /\ tc = TriggerAt("loading")

NextSession ==
    \/ TriggerLoadDone
    \/ OnClick
    \/ TriggerSend
    \/ \E text \in RoleTexts : UpdateRoles(text, "body")
    \/ ClearAllRoles("body")
    \/ TriggerOnUnload
    \/ TriggerReattach
    \/ PluginReload

SpecSession == InitSession /\ [][NextSession]_vars

\* C18: a role assigned to a user in one plugin session is still returned
\* by getUserRoles after the plugin was torn down and loaded again (no
\* clear-all-roles happens in the step that loads it).
C18_RolesPersist ==
    [][ev' = "pluginLoad" =>
          \A u \in Users : GetUserRoles(u)' = GetUserRoles(u)]_vars

-----------------------------------------------------------------------------
(* The role registry by itself.                                            *)

\* some code calls this.plugin.assignUserRole(userID, role) (lines 46-54)
AssignRole(userID, role) ==
    /\ userRoles' = AssignUserRole(userRoles, userID, role)
    /\ ev' = "assignUserRole"
    /\ out' = << [op |-> "assignUserRole", userID |-> userID, role |-> role] >>
    /\ UNCHANGED <<atUnload, secVars, host, now, availableRoles, tf, tc,
                   pendingSend, rcvAll>>

\* the roles that get assigned
AssignedNames == {Name("vip"), Name("gold")}

\* role names asked about, among them an untrimmed and an empty one
RoleNames == AssignedNames \cup {<<" ", "vip">>, NoName}

\* allow-lists with blanks around and empty entries between the commas
RegistryTexts ==
    {<<>>, <<"vip">>, <<"gold", ",", " ", "vip">>,
     <<" ", "vip", " ", ",", ",", "gold", " ">>, <<" ", ",">>}

InitRegistry ==
    /\ FreshPlugin
    /\ FreshReceiver
    /\ NoSecondary
    /\ rf = ReceiverDefaults
    /\ loadState = "none"
    /\ props = NoProps
    /\ tf = TriggerDefaults
    /\ tc = TriggerAt("none")

NextRegistry ==
    \/ \E u \in Users, r \in AssignedNames : AssignRole(u, r)
    \/ ClearAllRoles("body")
    \/ \E text \in RegistryTexts : UpdateRoles(text, "body")

SpecRegistry == InitRegistry /\ [][NextRegistry]_vars

\* text[i..j] lies between two commas (or the ends) and holds none
IsSegment(text, i, j) ==
    /\ i = 1 \/ text[i - 1] = ","
    /\ j = Len(text) \/ text[j + 1] = ","
    /\ \A k \in i..j : text[k] # ","

\* role is a trimmed, non-empty entry of the comma-separated text
IsEntry(text, role) ==
    /\ role # NoName
    /\ \E i \in 1..Len(text), j \in 1..Len(text) :
          IsSegment(text, i, j) /\ Trim(SubSeq(text, i, j)) = role

Holds(roles, u, r) == Includes(roles[u], r)

\* C19: an assign makes the user hold the role and changes nothing else, a
\* clear leaves every user without roles, nothing else changes the registry
\* (so a user holds a role iff it was assigned since the last clear), no
\* role list ever has a duplicate, and isValidRole(r) is true exactly for
\* the trimmed, non-empty entries of the comma-separated list.
C19_Registry ==
    [][/\ ev' = "assignUserRole" =>
            /\ Holds(userRoles', out'[1].userID, out'[1].role)
            /\ \A u \in Keys, r \in RoleNames :
                  (u # out'[1].userID \/ r # out'[1].role)
                     => (Holds(userRoles', u, r) <=> Holds(userRoles, u, r))
       /\ ev' = "clearAllRoles" => \A u \in Keys : GetUserRoles(u)' = <<>>
       /\ ev' \notin {"assignUserRole", "clearAllRoles"} => UNCHANGED userRoles
       /\ NoDuplicateRoles'
       /\ \A r \in RoleNames :
             IsValidRole(r)' <=> IsEntry(availableRoles', r)]_vars

\* a user holds both roles and another none, under a list with blanks and
\* empty entries that makes "vip" valid and " vip" not
C19_Witness ==
    /\ ev = "assignUserRole"
    /\ Len(userRoles[Me]) = 2
    /\ userRoles["u2"] = <<>>
    /\ availableRoles = <<" ", "vip", " ", ",", ",", "gold", " ">>
    /\ IsValidRole(Name("vip")) /\ ~IsValidRole(<<" ", "vip">>)

-----------------------------------------------------------------------------
(* A receiver, a proximity trigger and a secondary output that get         *)
(* unloaded.                                                               *)

\* one of the three components is on the object
InitUnload ==
    /\ FreshPlugin
    /\ FreshReceiver
    /\ rf = ReactiveSettings
    /\ props = NoProps
    /\ tf = [TriggerDefaults EXCEPT !.inputType = Name("Proximity")]
    /\ sf = [sourceID |-> Name("obj1")]
    /\ \E on \in {"receiver", "trigger", "secondary"} :
          /\ loadState = IF on = "receiver" THEN "loading" ELSE "none"
          /\ tc = TriggerAt(IF on = "trigger" THEN "loading" ELSE "none")
          /\ sc = SecondaryAt(IF on = "secondary" THEN "loading" ELSE "none")

NextUnload ==
    \/ LoadDone
    \/ \E msg \in {TriggerMessage(Name("A"), Me, FALSE),
                   RelayMessageFrom(Name("obj1"), TickMs)} : PluginOnMessage(msg)
    \/ ReceiverOnMessage
    \/ \E c \in conts : ResumeGetAnimations(c)
    \/ \E c \in conts : ResumeUpdate(c)
    \/ \E c \in conts : ResumeRevertUpdate(c)
    \/ \E t \in timers : FireRevert(t)
    \/ \E t \in timers : FireClearFlag(t)
    \/ ReceiverOnUnload
    \/ TriggerLoadDone
    \/ TriggerOnUnload
    \/ SecondaryLoadDone
    \/ SecondaryOnMessage
    \/ \E c \in sc.plays : SecondaryResumePlay(c)
    \/ \E due \in sc.stops : SecondaryStop(due)
    \/ SecondaryOnUnload
    \/ Tick

SpecUnload == InitUnload /\ [][NextUnload]_vars

\* onUnload of the component has returned
ReceiverGone == loadState \in {"unloading", "unloaded", "leaked"}
TriggerGone == tc.load \in {"unloading", "unloaded"}
SecondaryGone == sc.load # "none" /\ ~sc.registered

\* C20: once onUnload of a component has returned, none of its intervals
\* and timeouts is scheduled any more: no completion, cooldown or audio-stop
\* timer and no settings poll of the receiver, no proximity poll and no
\* input-type poll of the trigger, no audio stop of the secondary output;
\* also when onUnload ran while onLoad was suspended.
C20_NoWorkAfterUnload ==
    /\ ReceiverGone => (timers = {} /\ loadState # "leaked")
    /\ TriggerGone => (tc.intervals = 0 /\ ~tc.checker)
    /\ SecondaryGone => sc.stops = {}

-----------------------------------------------------------------------------
(* A Mapping receiver whose Transition Mapping setting is malformed.       *)

\* text that is not JSON, and JSON that is not an array of mapping objects
MalformedValues ==
    {Json(k, <<>>) : k \in {"invalid", "scalars", "nulls", "object", "string",
                            "number", "null"}}

MalformedSettings ==
    {[MappingSettings EXCEPT !.transitionMapping = v] : v \in MalformedValues}

InitMalformed ==
    /\ FreshPlugin
    /\ FreshReceiver
    /\ NoSecondary
    /\ rf \in MalformedSettings
    /\ loadState = "loading"
    /\ props = NoProps
    /\ tf = TriggerDefaults
    /\ tc = TriggerAt("none")

NextMalformed ==
    \/ LoadDone
    \/ OnSettingsUpdated
    \/ SettingsChecker
    \/ PluginOnMessage(TriggerMessage(Name("A"), Me, FALSE))
    \/ ReceiverOnMessage
    \/ Tick

SpecMalformed == InitMalformed /\ [][NextMalformed]_vars

\* C21: with a malformed Transition Mapping setting (not JSON, or JSON that
\* is no array of mapping objects) a trigger accepted by the loaded receiver
\* in mapping mode leaves the single-flight flag cleared, starts nothing and
\* changes neither the receiver's state nor the store.
C21_MalformedMappingIsEmpty ==
    [][(MappingTrigger /\ loadState = "loaded"
          /\ rf.transitionMapping \in MalformedValues)
         => /\ ~processingTransition'
            /\ out' = <<>>
            /\ UNCHANGED <<currentState, currentIndex, currentDirection,
                           conts, timers, props>>]_vars

-----------------------------------------------------------------------------
(* Host calls that reject while an accepted trigger is handled.            *)

\* getAnimationDuration, lines 620-630: objects.getAnimations rejects, the
\* catch block swallows it and 2000 is returned; the handler goes on to
\* objects.update
FailGetAnimations(c) ==
    /\ c \in conts /\ c.pc = "getAnimations"
    /\ LET u == Update(c.anim, IF c.kind = "reactive" THEN c.anim ELSE NoName,
                       UnsetDirection, c.kind = "reactive")
       IN  /\ props' = Merge(props, u)
           /\ out' = << u >>
           /\ conts' = (conts \ {c}) \cup
                          {[c EXCEPT !.pc = "update",
                                     !.duration =
                                        GetAnimationDuration(Rejected, c.anim)]}
    /\ ev' = "hostFailure"
    /\ UNCHANGED <<now, rf, loadState, rcvVars, timers, inbox, hist, audio,
                   others>>

\* await objects.update(...) rejects (lines 638, 685, 717, 756, 797): the
\* handler, and handleTrigger awaiting it, end with the rejection; no line
\* after the await runs.  The properties stay as the update was issued.
FailUpdate(c) ==
    /\ c \in conts /\ c.pc = "update"
    /\ conts' = conts \ {c}
    /\ ev' = "hostFailure" /\ out' = <<>>
    /\ UNCHANGED <<now, rf, loadState, rcvVars, timers, inbox, props, hist,
                   audio, others>>

\* await playSoundWithFile(...) rejects at audio.play (lines 759, 800, 862):
\* handleTransitionMapping ends before its setTimeout
FailPlayFile(c) ==
    /\ c \in conts /\ c.pc = "playFile"
    /\ audio' = [audio EXCEPT !.playing = @ \ {c.handle}]
    /\ conts' = conts \ {c}
    /\ ev' = "hostFailure" /\ out' = <<>>
    /\ UNCHANGED <<now, rf, loadState, rcvVars, timers, inbox, props, hist,
                   others>>

\* playSound rejects at audio.play (line 842); its caller did not await it
\* (lines 644, 687, 719, 771, 812) and has scheduled the completion
FailAudioPlay(c) ==
    /\ c \in conts /\ c.pc = "audioPlay"
    /\ audio' = [audio EXCEPT !.playing = @ \ {c.handle}]
    /\ conts' = conts \ {c}
    /\ ev' = "hostFailure" /\ out' = <<>>
    /\ UNCHANGED <<now, rf, loadState, rcvVars, timers, inbox, props, hist,
                   others>>

\* handleReactive, lines 654-663: await objects.update(...) rejects inside
\* the timer callback, the inner setTimeout is never reached
FailRevertUpdate(c) ==
    /\ c \in conts /\ c.pc = "revertUpdate"
    /\ conts' = conts \ {c}
    /\ ev' = "hostFailure" /\ out' = <<>>
    /\ UNCHANGED <<now, rf, loadState, rcvVars, timers, inbox, props, hist,
                   audio, others>>

FailureSettings ==
    {ReactiveSettings,
     [CycleSettings EXCEPT !.sound = Name("ding.mp3"),
                           !.disableLocalAudio = FALSE],
     [MappingSettings EXCEPT !.transitionMapping = MappingOverride]}

InitFailure ==
    /\ FreshPlugin
    /\ FreshReceiver
    /\ NoSecondary
    /\ rf \in FailureSettings
    /\ loadState = "loading"
    /\ props = NoProps
    /\ tf = TriggerDefaults
    /\ tc = TriggerAt("none")

NextFailure ==
    \/ LoadDone
    \/ PluginOnMessage(TriggerMessage(Name("A"), Me, FALSE))
    \/ ReceiverOnMessage
    \/ \E c \in conts : ResumeGetAnimations(c)
    \/ \E c \in conts : ResumeUpdate(c)
    \/ \E c \in conts : ResumePlayFile(c)
    \/ \E c \in conts : ResumeAudioPlay(c)
    \/ \E c \in conts : ResumeRevertUpdate(c)
    \/ \E c \in conts : FailGetAnimations(c)
    \/ \E c \in conts : FailUpdate(c)
    \/ \E c \in conts : FailPlayFile(c)
    \/ \E c \in conts : FailAudioPlay(c)
    \/ \E c \in conts : FailRevertUpdate(c)
    \/ \E t \in timers : FireStopAudio(t)
    \/ \E t \in timers : FireRevert(t)
    \/ \E t \in timers : FireClearFlag(t)
    \/ \E t \in timers : FireCommitCycle(t)
    \/ \E t \in timers : FireCommitMapping(t)
    \/ Tick

SpecFailure == InitFailure /\ [][NextFailure]_vars

\* a host call of the handler rejected in this step
HostCallFailed == ev' = "hostFailure"

\* nothing of the receiver is suspended or scheduled after the step
NothingInFlight == conts' = {} /\ timers' = {}

\* C22: when a host call made for an accepted trigger rejects and the step
\* leaves nothing of the loaded receiver suspended or scheduled, the
\* single-flight flag is cleared, so that the next trigger after the cooldown
\* is accepted.
C22_FailureAbandonsOneTrigger ==
    [][(HostCallFailed /\ loadState = "loaded" /\ NothingInFlight)
         => ~processingTransition']_vars

-----------------------------------------------------------------------------
(* Settings edited and read again while a transition is in flight.         *)

RenamedStates == <<"closed", ",", " ", "ajar", ",", " ", "open">>

MappingAC ==
    Json("json", << [from |-> Name("A"), to |-> Name("C"),
                     forward |-> Name("F"), return |-> Name("R"),
                     soundForward |-> NoName, soundReturn |-> NoName] >>)

\* the settings the designer types over the ones the receiver started with
Retyped(fields) ==
    IF fields.transitionMode = Name("Cycle")
    THEN CycleWith(RenamedStates)
    ELSE [MappingSettings EXCEPT !.transitionMapping = MappingAC]

InitReread ==
    /\ FreshPlugin
    /\ FreshReceiver
    /\ NoSecondary
    /\ rf \in {CycleWith(ThreeStates), MappingSettings}
    /\ loadState = "loading"
    /\ props = NoProps
    /\ tf = TriggerDefaults
    /\ tc = TriggerAt("none")

NextReread ==
    \/ LoadDone
    \/ OnSettingsUpdated
    \/ SettingsChecker
    \/ EditReceiver(Retyped(rf))
    \/ PluginOnMessage(TriggerMessage(Name("A"), Me, FALSE))
    \/ ReceiverOnMessage
    \/ \E c \in conts : ResumeGetAnimations(c)
    \/ \E c \in conts : ResumeUpdate(c)
    \/ \E t \in timers : FireCommitCycle(t)
    \/ \E t \in timers : FireCommitMapping(t)
    \/ Tick

SpecReread == InitReread /\ [][NextReread]_vars

\* the step is a re-read of the settings
Reread == ev' = "readSettings"

\* the completion callback `t` of a transition runs in this step
Completes(t) ==
    /\ ev' \in {"commitCycle", "commitMapping"}
    /\ t \in timers /\ t \notin timers'
    /\ t.kind = ev'

\* the callback committed state `st` (and index `idx` in cycle mode): the
\* field, the animation shown and the stored state
Commits(st, idx) ==
    /\ currentState' = st
    /\ ev' = "commitCycle" => currentIndex' = idx
    /\ out'[1].animation = st
    /\ props'.animation = st
    /\ props'.currentState = st

\* C23: a re-read of the settings leaves every scheduled completion callback
\* scheduled as it was, and a completion callback commits the state (index,
\* animation) that was its destination when it was scheduled, whatever the
\* settings read since then.
C23_RereadLeavesCallback ==
    [][/\ Reread => timers' = timers
       /\ \A t \in timers : Completes(t) => Commits(t.target, t.nextIndex)]_vars

-----------------------------------------------------------------------------
(* The input mode of a loaded trigger is changed.                          *)

\* onSettingsUpdated of the definitions that poll (the second ones), called
\* by the host or by the 500 ms inputTypeChecker, finds an input mode other
\* than the one the component works in
ObservesChange ==
    /\ build = 2
    /\ ev' \in {"triggerSettings", "inputTypeChecker"}
    /\ tc.load = "loaded"
    /\ InputTypeField # tc.currentInputType

\* some setInterval(checkProximity, 100) of the component is running
PollRunning == tc.intervals > 0

\* C24: when the loaded trigger (of the definitions with the 500 ms poll)
\* observes a changed input mode it takes the new mode, resets the one-shot
\* flag, and afterwards its proximity poll runs iff the new mode is Proximity
\* or Multi-Proximity.
C24_InputModeChange ==
    [][ObservesChange =>
         /\ tc'.currentInputType = InputTypeField
         /\ ~tc'.triggered
         /\ PollRunning' <=> PollsProximity(InputTypeField)]_vars

-----------------------------------------------------------------------------
(* Mapping receivers: which entry of the mapping list a trigger uses.      *)

Entry(from, to, forward, return) ==
    [from |-> Name(from), to |-> Name(to), forward |-> Name(forward),
     return |-> Name(return), soundForward |-> NoName, soundReturn |-> NoName]

\* initial state and mapping list, as typed into the settings
MatchCases ==
    { <<"A", << Entry("A", "B", "F", "R") >> >>,
      <<"C", << Entry("A", "B", "F", "R") >> >>,
      <<"A", << Entry("A", "B", "F", "R"), Entry("A", "C", "F2", "R2") >> >>,
      <<"A", << Entry("X", "A", "G", "H"), Entry("A", "B", "F", "R") >> >>,
      <<"B", << Entry("A", "B", "F", "R"), Entry("C", "B", "F2", "R2") >> >> }

MatchSettings ==
    {[MappingSettings EXCEPT !.initialState = Name(m[1]),
                             !.transitionMapping = Json("json", m[2])] :
        m \in MatchCases}

InitMatch ==
    /\ FreshPlugin
    /\ FreshReceiver
    /\ NoSecondary
    /\ rf \in MatchSettings
    /\ loadState = "loading"
    /\ props = NoProps
    /\ tf = TriggerDefaults
    /\ tc = TriggerAt("none")

SpecMatch == InitMatch /\ [][NextMapping]_vars

\* the mapping list in memory is an array of mapping objects
MappingList == mappingArray.text = "json"

\* the entries of the list whose `field` is the current state
EntriesWith(field) ==
    {i \in 1..Len(mappingArray.value) :
        mappingArray.value[i][field] = currentState}

FirstOf(S) == CHOOSE i \in S : \A j \in S : i <= j

\* C25: in mapping mode an accepted trigger that finds no entry with `from`
\* or `to` equal to the current state clears the single-flight flag and does
\* nothing else: no host call, nothing suspended or scheduled, no change of
\* the receiver's state, of the store or of the audio.
C25_NoMatchIsNoOp ==
    [][(MappingTrigger /\ MappingList
          /\ EntriesWith("from") = {} /\ EntriesWith("to") = {})
         => /\ ~processingTransition'
            /\ out' = <<>>
            /\ UNCHANGED <<currentState, currentIndex, currentDirection,
                           conts, timers, props, audio>>]_vars

\* a trigger was just accepted by a loaded receiver whose non-empty mapping
\* list has no entry for the current state, and nothing is in flight
C25_Witness ==
    /\ ev = "handleTrigger" /\ lastAccepted = now /\ loadState = "loaded"
    /\ MappingList /\ mappingArray.value # <<>>
    /\ EntriesWith("from") = {} /\ EntriesWith("to") = {}
    /\ conts = {} /\ timers = {} /\ ~processingTransition

\* the transition suspended at getAnimations goes on in this step: it shows
\* animation c.anim
Plays(c) ==
    /\ c \in conts /\ c \notin conts'
    /\ c.pc = "getAnimations" /\ c.kind = "mapping"
    /\ ev' = "resume"

\* C26: in mapping mode an accepted trigger uses the first entry whose
\* `from` is the current state (forward animation, ends in `to`), and only
\* when no entry has that `from` the first entry whose `to` is the current
\* state (return animation, ends in `from`); the transition then shows that
\* animation and its completion commits that end state.
C26_ForwardBeforeReverse ==
    [][/\ (MappingTrigger /\ MappingList /\ EntriesWith("from") # {})
            => LET m == mappingArray.value[FirstOf(EntriesWith("from"))]
               IN  Starts(m.forward, m.to)
       /\ (MappingTrigger /\ MappingList /\ EntriesWith("from") = {}
             /\ EntriesWith("to") # {})
            => LET m == mappingArray.value[FirstOf(EntriesWith("to"))]
               IN  Starts(m.return, m.from)
       /\ \A c \in conts : Plays(c) => out'[1].animation = c.anim
       /\ \A t \in timers :
             (Completes(t) /\ t.kind = "commitMapping")
                => Commits(t.target, t.nextIndex)]_vars

\* a trigger was just accepted in a state that one entry has as its `to`
\* and a later entry as its `from`: the later entry's forward transition
\* was started
C26_Witness ==
    /\ ev = "handleTrigger" /\ lastAccepted = now /\ loadState = "loaded"
    /\ MappingList
    /\ EntriesWith("from") # {} /\ EntriesWith("to") # {}
    /\ FirstOf(EntriesWith("to")) < FirstOf(EntriesWith("from"))
    /\ \E c \in conts :
          /\ c.pc = "getAnimations"
          /\ c.anim = mappingArray.value[FirstOf(EntriesWith("from"))].forward
          /\ c.target = mappingArray.value[FirstOf(EntriesWith("from"))].to

-----------------------------------------------------------------------------
(* Reactive mode: how long the single-flight flag is held.                 *)

\* handleTrigger sets the flag in this step: a trigger is accepted
FlagSet == ~processingTransition /\ processingTransition'

\* the flag is cleared in this step
FlagCleared == processingTransition /\ ~processingTransition'

\* a reaction of handleReactive is somewhere between its acceptance and the
\* timer that clears the flag
ReactionInFlight ==
    \/ \E c \in conts : c.kind = "reactive"
    \/ \E t \in timers : t.kind \in {"revert", "clearFlag"}

\* handleReactive has switched back to the default animation and schedules
\* the clearing of the flag
SwitchedBack(c) == ReactiveAt(c, "revertUpdate")

\* C27: in Reactive mode the flag, once set by an accepted trigger, is
\* cleared only by the timer scheduled `cooldown` seconds after the switch
\* back to the default animation; no trigger is accepted while a reaction is
\* in flight, and that timer never finds the flag already cleared.
C27_ReactiveFlagHeld ==
    [][rf = ReactiveSettings =>
         /\ FlagCleared => ev' = "clearFlag"
         /\ \A c \in conts : SwitchedBack(c) =>
               \E t \in timers' :
                  /\ t.kind = "clearFlag"
                  /\ t.due = now + NumberOr(rf.cooldown, DefaultCooldown) * 1000
         /\ \A t \in timers :
               (t.kind = "clearFlag" /\ t \notin timers')
                  => (now >= t.due /\ FlagCleared)
         /\ FlagSet => ~ReactionInFlight]_vars

-----------------------------------------------------------------------------
(* Cycle mode: the completion callback.                                    *)

\* the second objects.update of the callback (lines 706, 738)
Persisted == out'[Len(out')]

\* C28: in cycle mode the completion callback, in one step, takes the new
\* index and the state at that index, writes {currentState,
\* currentDirection} as they then are in memory to the object store, and
\* clears the single-flight flag; it schedules nothing, so the flag is held
\* for no further cooldown.
C28_CycleCommit ==
    [][\A t \in timers :
         (Completes(t) /\ t.kind = "commitCycle") =>
            /\ currentIndex' = t.nextIndex
            /\ currentState' = At(staticStates, t.nextIndex)
            /\ Len(out') = 2
            /\ Persisted.op = "update" /\ Persisted.hasState
            /\ Persisted.currentState = currentState'
            /\ Persisted.currentDirection = currentDirection'
            /\ currentState' # NoName =>
                  /\ props'.currentState = currentState'
                  /\ props'.currentDirection = currentDirection'
            /\ ~processingTransition'
            /\ timers' = timers \ {t}
            /\ conts' = conts]_vars

\* a loaded receiver has just committed the move from static01 to static02
C28_Witness ==
    /\ ev = "commitCycle" /\ loadState = "loaded"
    /\ currentIndex = 1 /\ currentState = Name("static02")
    /\ props.currentState = Name("static02") /\ props.currentDirection = 1
    /\ ~processingTransition /\ timers = {} /\ conts = {}

-----------------------------------------------------------------------------
(* Cycle mode: which transition animation a move plays.                    *)

\* forward and reverse transition lists as typed: the defaults, lists with
\* one entry, and a reverse list with three
AnimationLists ==
    { <<DefaultForward, DefaultReverse>>,
      << <<"transition02">>, <<"return02">> >>,
      <<DefaultForward,
        <<"return01", ",", "return02", ",", " ", "Transition01">> >> }

AnimationSettings ==
    {[CycleSettings EXCEPT !.forwardTransitions = l[1],
                           !.reverseTransitions = l[2]] :
        l \in AnimationLists}

InitAnimations ==
    /\ FreshPlugin
    /\ FreshReceiver
    /\ NoSecondary
    /\ rf \in AnimationSettings
    /\ loadState = "loading"
    /\ props = NoProps
    /\ tf = TriggerDefaults
    /\ tc = TriggerAt("none")

SpecAnimations == InitAnimations /\ [][NextCycleFixed]_vars

\* entry number i (from 0) of a list, its first entry when it has no such
\* entry
EntryOrFirst(list, i) == IF i < Len(list) THEN list[i + 1] ELSE list[1]

\* the settings were read in this step
ReadsLists == ev' \in {"onLoad", "readSettings"} /\ CycleMode

\* the list in memory holds the entries typed into the field, in input order
InInputOrder(list, text) ==
    /\ Len(list) = Len(ParseList(text))
    /\ \A k \in 1..Len(list) : list[k] = ParseList(text)[k]

\* the list in memory holds them in the opposite order
InOppositeOrder(list, text) ==
    /\ Len(list) = Len(ParseList(text))
    /\ \A k \in 1..Len(list) : list[k] = ParseList(text)[Len(list) + 1 - k]

\* an accepted trigger starts the move `c` in this step
StartsMove(c) ==
    /\ ev' = "handleTrigger"
    /\ c \in conts' /\ c \notin conts
    /\ c.kind = "cycle" /\ c.pc = "getAnimations"

\* the move `c` shows its animation in this step
ShowsMove(c) ==
    /\ ev' = "resume"
    /\ c \in conts /\ c \notin conts'
    /\ c.kind = "cycle" /\ c.pc = "getAnimations"

\* C29: in cycle mode a read of the settings keeps the forward list in input
\* order and the reverse list in the opposite order; a forward move from
\* index i plays entry i of the forward list, a reverse move from i plays
\* entry i-1 of the reversed reverse list, and the first entry of the list
\* when it has no entry there.
C29_TransitionAnimation ==
    [][/\ ReadsLists =>
            /\ InInputOrder(forwardTransitions', rf.forwardTransitions)
            /\ InOppositeOrder(reverseTransitions', rf.reverseTransitions)
       /\ \A c \in conts' :
            StartsMove(c) =>
               /\ c.nextIndex \in {currentIndex' + 1, currentIndex' - 1}
               /\ c.nextIndex = currentIndex' + 1 =>
                     c.anim = EntryOrFirst(forwardTransitions, currentIndex')
               /\ c.nextIndex = currentIndex' - 1 =>
                     c.anim = EntryOrFirst(reverseTransitions, currentIndex' - 1)
       /\ \A c \in conts :
            ShowsMove(c) => (out'[1].op = "update" /\ out'[1].animation = c.anim)
      ]_vars

\* with the reverse list typed as "return01,return02, Transition01" the
\* receiver at the last of three states has started the reverse move to
\* index 1, playing return02
C29_Witness ==
    /\ ev = "handleTrigger" /\ loadState = "loaded"
    /\ Len(reverseTransitions) = 3
    /\ currentIndex = 2
    /\ \E c \in conts :
          /\ c.kind = "cycle" /\ c.nextIndex = 1
          /\ c.anim = Name("return02")

\* with the one-entry lists the receiver has started the move from index 1
\* to index 2, playing the only entry of the forward list
C29_FallbackWitness ==
    /\ ev = "handleTrigger" /\ loadState = "loaded"
    /\ Len(forwardTransitions) = 1
    /\ currentIndex = 1
    /\ \E c \in conts :
          /\ c.kind = "cycle" /\ c.nextIndex = 2
          /\ c.anim = Name("transition02")

-----------------------------------------------------------------------------
(* getAnimationDuration: what the lookup returns.                          *)

\* what getAnimations resolves to: the host's list; text that is no JSON;
\* JSON that is no array; the empty array; a first entry without a name; a
\* first match with duration 0 before a second match; a duration that is
\* text ('[{"name": "active", "duration": "fast"}]')
Metadata ==
    { HostAnimations,
      Json("invalid", <<>>),
      Json("object", <<>>),
      Json("json", <<>>),
      Json("json", << [name |-> Undefined, duration |-> 1],
                      [name |-> Name("active"), duration |-> 2] >>),
      Json("json", << [name |-> <<"idle", "-", "active">>, duration |-> 0],
                      [name |-> Name("active"), duration |-> 2] >>),
      Json("json", << [name |-> Name("active"), duration |-> NaN] >>) }

\* the requested name: part of a name, a name in another case, a name no
\* animation has, the empty field and the field that was never set
RequestedNames ==
    { Name("active"), Name("transition01"), Name("missing"), NoName,
      Undefined }

InitDuration ==
    /\ FreshPlugin
    /\ FreshComponent
    /\ NoSecondary
    /\ animations \in Metadata
    /\ rf \in {[ReactiveSettings EXCEPT !.reactiveAnimation = n] :
                 n \in RequestedNames}
    /\ loadState = "loading"
    /\ props = NoProps
    /\ tf = TriggerDefaults
    /\ tc = TriggerAt("none")

NextDuration ==
    \/ LoadDone
    \/ PluginOnMessage(TriggerMessage(Name("A"), Me, FALSE))
    \/ ReceiverOnMessage
    \/ \E c \in conts : ResumeGetAnimations(c)
    \/ \E c \in conts : FailGetAnimations(c)
    \/ \E c \in conts : ResumeUpdate(c)
    \/ \E c \in conts : ResumeRevertUpdate(c)
    \/ \E t \in timers : FireRevert(t)
    \/ \E t \in timers : FireClearFlag(t)
    \/ Tick

SpecDuration == InitDuration /\ [][NextDuration]_vars

\* getAnimationDuration(c.anim) returns d in this step
Returns(c, d) ==
    /\ ev' \in {"resume", "hostFailure"}
    /\ c \in conts /\ c.pc = "getAnimations"
    /\ [c EXCEPT !.pc = "update", !.duration = d] \in conts' \ conts

\* the metadata is an array of entries that have a name and a number of
\* seconds
WellFormed(m) ==
    /\ m.text = "json"
    /\ \A i \in 1..Len(m.value) :
          m.value[i].name # Undefined /\ m.value[i].duration # NaN

\* the entries of well-formed metadata whose name contains `name`, whatever
\* the case
MatchesOf(m, name) ==
    {i \in 1..Len(m.value) :
        \E k \in 0..(Len(m.value[i].name) - Len(name)) :
            SubSeq(Lower(m.value[i].name), k + 1, k + Len(name)) = Lower(name)}

\* C30: getAnimationDuration returns a number of milliseconds: 2000 when the
\* fetch fails, the metadata is malformed, the name is missing or no
\* animation matches, and else the duration of the first animation whose
\* name contains the requested one whatever the case (2000 is accepted for
\* a first match that has no duration or the duration 0).
C30_DurationLookup ==
    [][\A c \in conts : \A d \in {NaN, 0, 1000, 2000} :
          Returns(c, d) =>
             LET hits == MatchesOf(animations, c.anim)
                 first == CHOOSE i \in hits : \A j \in hits : i <= j
             IN  IF \/ ev' = "hostFailure"
                    \/ ~WellFormed(animations)
                    \/ c.anim = Undefined
                    \/ hits = {}
                 THEN d = DefaultDurationMs
                 ELSE \/ d = animations.value[first].duration * 1000
                      \/ /\ animations.value[first].duration = 0
                         /\ d = DefaultDurationMs
      ]_vars

-----------------------------------------------------------------------------
(* Dropped triggers and the cooldown window.                               *)

\* handleTrigger runs in this step and drops the trigger because a transition
\* is in flight
DroppedInFlight == ev' = "handleTrigger" /\ Busy

\* handleTrigger runs in this step, no transition is in flight and the last
\* accepted trigger lies at least `cooldown` seconds back
DueAgain ==
    /\ ev' = "handleTrigger" /\ ~Busy
    /\ lastAccepted # UndefinedTime
    /\ now - lastAccepted >= NumberOr(rf.cooldown, DefaultCooldown) * 1000

\* C31: a trigger dropped because a transition is in flight leaves the
\* receiver's fields, the last-trigger timestamp included, as they were; a
\* trigger that arrives at least `cooldown` seconds after the last accepted
\* one with no transition in flight is accepted.
C31_DroppedTriggerLeavesState ==
    [][/\ DroppedInFlight => UNCHANGED <<rcvVars, conts, timers, props>>
       /\ DueAgain => lastAccepted' = now
      ]_vars

-----------------------------------------------------------------------------
(* Mapping mode: a re-read of unchanged settings.                          *)

\* the settings are read again in this step by a loaded Mapping receiver:
\* the settingsChecker interval, onSettingsUpdated from the host, or the
\* onSettingsUpdated the role panel calls on every receiver
RereadInMapping ==
    /\ ev' = "readSettings"
    /\ loadState = "loaded"
    /\ rf' = rf
    /\ AnimationModeField = Name("Transition")
    /\ TransitionModeField # Name("Cycle")

\* C32: in mapping mode a re-read of the settings, with the settings as
\* they were, leaves the receiver's current state as it was.
C32_RereadKeepsMappingState ==
    [][RereadInMapping => currentState' = currentState]_vars

-----------------------------------------------------------------------------
(* The trigger's proximity interval.                                       *)

\* C33: a trigger component never has more than one
\* setInterval(checkProximity, 100) running, whatever the order of onLoad,
\* onSettingsUpdated (with or without a change of input mode) and onUnload.
C33_OneProximityInterval == tc.intervals <= 1

-----------------------------------------------------------------------------
(* Transitions in flight.                                                  *)

\* the completion callbacks that are scheduled and will commit a state
PendingCommits ==
    {t \in timers : t.kind \in {"revert", "commitCycle", "commitMapping"}}

\* C34: a receiver never has more than one completion callback pending,
\* whatever the interleaving of onLoad, re-reads of the settings and trigger
\* messages.
C34_SingleFlight == Cardinality(PendingCommits) <= 1

-----------------------------------------------------------------------------
(* Does an accepted trigger give the flag back?                            *)

\* the store holds a state in the middle of the list and a direction that is
\* neither 1 nor -1
OddDirection ==
    [NoProps EXCEPT !.currentState = Name("static02"), !.currentDirection = 2]

\* settings and stored properties when the receiver is attached
LiveCases ==
    {<<s, NoProps>> : s \in ReceiverSettings} \cup {<<CycleSettings, OddDirection>>}

InitLive ==
    /\ FreshPlugin
    /\ FreshReceiver
    /\ NoSecondary
    /\ build = 1
    /\ \E c \in LiveCases : rf = c[1] /\ props = c[2]
    /\ loadState = "loading"
    /\ tf = TriggerDefaults
    /\ tc = TriggerAt("none")

\* the first definitions, which read the settings again only when told to;
\* here nobody tells them
NextLive ==
    \/ LoadDone
    \/ EditReceiver(CycleSettings)
    \/ PluginOnMessage(TriggerMessage(Name("A"), Me, FALSE))
    \/ ReceiverOnMessage
    \/ \E c \in conts : ResumeGetAnimations(c)
    \/ \E c \in conts : ResumeUpdate(c)
    \/ \E c \in conts : ResumeRevertUpdate(c)
    \/ \E t \in timers : FireRevert(t)
    \/ \E t \in timers : FireClearFlag(t)
    \/ \E t \in timers : FireCommitCycle(t)
    \/ \E t \in timers : FireCommitMapping(t)
    \/ Tick

\* the host resolves every call and runs every callback that is due, onLoad
\* finishes, forwarded messages are delivered and time goes on; nobody has
\* to edit, notify or trigger
FairLive ==
    /\ WF_vars(LoadDone)
    /\ WF_vars(ReceiverOnMessage)
    /\ WF_vars(\E c \in conts : ResumeGetAnimations(c))
    /\ WF_vars(\E c \in conts : ResumeUpdate(c))
    /\ WF_vars(\E c \in conts : ResumeRevertUpdate(c))
    /\ WF_vars(\E t \in timers : FireRevert(t))
    /\ WF_vars(\E t \in timers : FireClearFlag(t))
    /\ WF_vars(\E t \in timers : FireCommitCycle(t))
    /\ WF_vars(\E t \in timers : FireCommitMapping(t))
    /\ WF_vars(Tick)

SpecLive == InitLive /\ [][NextLive]_vars /\ FairLive

\* the clock of the model has reached its bound with work still outstanding
ClockEnded ==
    /\ now >= StartTime + MaxTicks * TickMs
    /\ conts # {} \/ timers # {}

\* C35: once a trigger is accepted and the flag set, the flag is cleared
\* again (or the bounded clock ends with a callback still outstanding), in
\* every mode, also with a stored direction that is neither 1 nor -1 and
\* after a switch to Transition that no re-read followed.
C35_FlagEventuallyCleared ==
    processingTransition ~> (~processingTransition \/ ClockEnded)

-----------------------------------------------------------------------------
(* Which plugin messages start a reaction.                                 *)

\* handleTrigger starts a reaction in this step
StartsReaction ==
    /\ ev' = "handleTrigger"
    /\ Accepts
    /\ conts' # conts

\* C36: a reaction is started only for a plugin message whose action was
\* "trigger"; a relaySound message starts none, whatever the receiver's
\* settings, an action identifier that was never typed in included.
C36_RelayNeverTriggers ==
    [][StartsReaction => Head(inbox).was = "trigger"]_vars

-----------------------------------------------------------------------------
(* The one-shot flag of the proximity modes.                               *)

\* a proximity check sets the one-shot flag in this step
SetsOneShot ==
    /\ ev' \in {"checkProximity", "checkUsers"}
    /\ ~tc.triggered
    /\ tc'.triggered

\* trigger() goes on to broadcast in this step: it is suspended at isAdmin()
\* and will send
WillBroadcast == Len(pendingSend') = Len(pendingSend) + 1

\* C37: in the proximity modes the one-shot flag is set only in a step whose
\* trigger() call goes on to broadcast; an attempt that role gating aborts
\* leaves the flag clear.
C37_OneShotOnlyOnBroadcast ==
    [][SetsOneShot => WillBroadcast]_vars

-----------------------------------------------------------------------------
(* Playbacks and their stop timers.                                        *)

\* the secondary relay has no audio.play outstanding and no stop timer left
RelayQuiet == sc.plays = {} /\ sc.stops = {}

\* the receiver has no audio.play outstanding, no handler that may still
\* play, and no stop timer left
ReceiverQuiet ==
    /\ conts = {}
    /\ \A t \in timers : t.kind # "stopAudio"

\* C38: every playback a secondary relay or a receiver started is stopped by
\* the time its stop timers have run: once the component has no play call
\* outstanding and no stop timer left, none of its playbacks is running,
\* also when a second playback started before the first one's timer fired.
C38_EveryPlaybackStopped ==
    /\ RelayQuiet => sc.playing = {}
    /\ ReceiverQuiet => audio.playing = {}

-----------------------------------------------------------------------------
(* Numeric settings: volume and cooldown.                                  *)

\* volume and cooldown as parseFloat reads them from the fields; NaN is a
\* field that is empty or no number
NumericCases == { <<0, 0>>, <<2, 2>>, <<NaN, NaN>> }

NumericSettings ==
    {[ReceiverDefaults EXCEPT !.sound = Name("ding.mp3"),
                              !.disableLocalAudio = d,
                              !.volume = n[1], !.cooldown = n[2]] :
        n \in NumericCases, d \in BOOLEAN}

InitNumeric ==
    /\ FreshPlugin
    /\ FreshReceiver
    /\ NoSecondary
    /\ rf \in NumericSettings
    /\ loadState = "loading"
    /\ props = NoProps
    /\ tf = TriggerDefaults
    /\ tc = TriggerAt("none")

NextNumeric ==
    \/ LoadDone
    \/ PluginOnMessage(TriggerMessage(Name("A"), Me, FALSE))
    \/ ReceiverOnMessage
    \/ \E c \in conts : ResumeGetAnimations(c)
    \/ \E c \in conts : ResumeUpdate(c)
    \/ \E c \in conts : ResumeAudioPlay(c)
    \/ \E c \in conts : ResumeRevertUpdate(c)
    \/ \E t \in timers : FireStopAudio(t)
    \/ \E t \in timers : FireRevert(t)
    \/ \E t \in timers : FireClearFlag(t)
    \/ Tick

SpecNumeric == InitNumeric /\ [][NextNumeric]_vars

\* the number a field configures: what was typed when it is a number, the
\* default when it is missing or no number
Configured(x, default) == IF x = NaN THEN default ELSE x

\* handleTrigger runs in this step with no transition in flight and the last
\* trigger at least the configured cooldown back
CooldownOver ==
    /\ ev' = "handleTrigger" /\ ~Busy
    /\ lastTriggerTime # UndefinedTime
    /\ now - lastTriggerTime >= Configured(rf.cooldown, DefaultCooldown) * 1000

\* C39: a volume and a cooldown that are numbers are used as configured, 0
\* included: every playback and every relaySound message carries the
\* configured volume, and a trigger is accepted once the configured cooldown
\* has passed; only a missing or unparsable value gives the default 1.
C39_NumericAsConfigured ==
    [][/\ \A i \in 1..Len(out') :
            (\/ out'[i].op = "play"
             \/ out'[i].op = "send" /\ out'[i].action = "relaySound")
               => out'[i].volume = Configured(rf.volume, 1)
       /\ CooldownOver => lastAccepted' = now
      ]_vars

-----------------------------------------------------------------------------
(* A trigger that grants a role and a receiver restricted to that role, in *)
(* one plugin instance.                                                    *)

\* a click or proximity trigger for action "A" that grants vip
AssignSettings ==
    {[TriggerDefaults EXCEPT !.assignRole = Name("vip"), !.inputType = i] :
        i \in {Name("On-Click"), Name("Proximity")}}

\* the receiver of action "A", restricted to vip
RestrictedSettings ==
    [ReactiveSettings EXCEPT !.roleRestricted = TRUE,
                             !.requiredRole = Name("vip")]

\* role lists the panel may save; vip is valid in each of them
ValidRoleTexts == {<<"vip">>, <<"gold", ",", " ", "vip">>}

\* the plugin has restored the role list 'vip' from localStorage (lines
\* 74-87); trigger and receiver have just been attached
InitAssign ==
    /\ build \in {1, 2}
    /\ now = StartTime
    /\ ev = "init"
    /\ out = <<>>
    /\ userRoles = [u \in Keys |-> <<>>]
    /\ availableRoles = <<"vip">>
    /\ pendingSend = <<>>
    /\ FreshReceiver
    /\ NoSecondary
    /\ rf = RestrictedSettings
    /\ loadState = "loading"
    /\ props = NoProps
    /\ tf \in AssignSettings
    /\ tc = TriggerAt("loading")

\* the host hands the message the trigger has just sent to the plugin of the
\* same instance (messages.send at lines 457-464, AssetLink.onMessage)
DeliverSent ==
    /\ ev = "triggerSend"
    /\ PluginOnMessage(TriggerMessage(out[1].actionID, out[1].userID,
                                      out[1].isAdmin))

NextAssign ==
    \/ TriggerLoadDone
    \/ OnClick
    \/ PollStart(1, 1)
    \/ PollPosition(<<>>)
    \/ TriggerSend
    \/ DeliverSent
    \/ \E text \in ValidRoleTexts : UpdateRoles(text, "body")
    \/ LoadDone
    \/ ReceiverOnMessage
    \/ \E c \in conts : ResumeGetAnimations(c)
    \/ \E c \in conts : ResumeUpdate(c)

SpecAssign == InitAssign /\ [][NextAssign]_vars

\* the receiver's onMessage runs in this step on a forwarded trigger event
ReceivesEvent == ev' \in {"handleTrigger", "onMessage"} /\ inbox # <<>>

\* C40: when a trigger that assigns role R fires, R is in the registry for
\* the user named in the message when the message is broadcast, and a
\* receiver restricted to R (R being a valid role) lets that event through
\* to handleTrigger.
C40_RoleRecordedBeforeBroadcast ==
    [][/\ ev' = "triggerSend" =>
            IndexOf(GetUserRoles(out'[1].userID), tf.assignRole) # -1
       /\ ReceivesEvent => ev' = "handleTrigger"
      ]_vars

=============================================================================
